---- MODULE Spec2Model ----
(***************************************************************************)
(* cpupower-gui-qml: the privileged helper service (HelperService) and the *)
(* client-side operation scheduler (DbusHelper).                           *)
(*                                                                         *)
(* The helper service is modelled over the kernel control files it reads   *)
(* and writes; update_cpu_settings is split at its two file writes so that *)
(* the state between them is a state of the model.  The scheduler is       *)
(* modelled over its queue, its flags and the asynchronous calls that are  *)
(* awaiting their completion.                                              *)
(***************************************************************************)
EXTENDS Integers, Sequences, FiniteSets, TLC

\* ---------------------------------------------------------------- bounds
\* Frequencies are 1..MaxFreq (kHz values stand for themselves).
MaxFreq == 2
\* Operations enqueued in one run of the scheduler.
MaxOps == 3
\* beginBatch calls in one run of the scheduler.
MaxBatches == 2
\* Calls of the application's setters in a run.
MaxSets == 2
\* The largest unit index written into a unit list (two digits).
MaxIndex == 10
\* The comma-separated parts of a unit list.
MaxParts == 2
\* The idle timeout in ticks of the clock (the service's default is 60 s).
m_idleTimeoutSecs == 2

\* ------------------------------------------------------------- universes
\* The units of the machine: one unit, index 0.  Whether it has an `online`
\* control file (whether the kernel lets it be taken offline) is chosen in Init.
Cpus == {0}
Freqs == 1..MaxFreq
\* What a caller may pass as freq_min and freq_max: any frequency the unit
\* supports, and one above its hardware maximum.
FreqArgs == Freqs \cup {MaxFreq + 1}
\* cpufreq/cpuinfo_min_freq and cpufreq/cpuinfo_max_freq of each unit
\* (read-only files of the kernel).
cpuinfo_min_freq == [c \in Cpus |-> 1]
cpuinfo_max_freq == [c \in Cpus |-> MaxFreq]
\* D-Bus unique names of remote callers.
Senders == {":1.7", ":1.70"}
Governors == {"performance", "powersave"}
GovernorRequests == Governors \cup {"bogus"}
EnergyPrefs == {"performance", "power"}
EnergyPrefRequests == EnergyPrefs \cup {"bogus"}
\* Default action id of HelperService::isAuthorized.
ActionId == "io.github.cpupower_gui.qt.apply_runtime"
QueryMethods ==
  {"get_cpus_available", "get_cpus_online", "get_cpus_offline",
   "get_cpus_present", "get_cpu_governors", "get_cpu_energy_preferences",
   "get_cpu_governor", "get_cpu_energy_preference", "get_cpu_frequencies",
   "get_cpu_limits", "cpu_allowed_offline"}
MutatingMethods ==
  {"update_cpu_settings", "update_cpu_governor", "update_cpu_energy_prefs",
   "set_cpu_online", "set_cpu_offline"}

\* Replies of the policy authority to CheckAuthorization: an error message
\* (transport error or the 120000 ms timeout), a reply without arguments,
\* or the struct (is_authorized, is_challenge, details).
NoReply == [type |-> "none", isAuthorized |-> FALSE, isChallenge |-> FALSE]
PolkitReplies ==
  {[type |-> "error", isAuthorized |-> FALSE, isChallenge |-> FALSE],
   [type |-> "empty", isAuthorized |-> FALSE, isChallenge |-> FALSE]}
  \cup {[type |-> "result", isAuthorized |-> a, isChallenge |-> c] :
          a \in BOOLEAN, c \in BOOLEAN}

\* Who calls a method: the process itself (calledFromDBus() is false), or a
\* bus peer together with what the policy authority would answer about it.
Callers ==
  {[fromDBus |-> FALSE, sender |-> "", reply |-> NoReply]}
  \cup {[fromDBus |-> TRUE, sender |-> s, reply |-> r] :
          s \in Senders, r \in PolkitReplies}

\* The values of a CpuSettings object before it has read the system.
NoSettings ==
  [FreqMin |-> 0, FreqMax |-> 0, Governor |-> "", EnergyPref |-> "",
   Online |-> FALSE]
\* No setter has just returned.
NoSet == [method |-> "none", value |-> "", emitted |-> {}]
\* No applyChanges has just returned.
NoApply ==
  [called |-> FALSE, calls |-> <<>>, rets |-> <<>>, ret |-> 0,
   refreshed |-> FALSE, offlinePending |-> FALSE]

\* Application::clearPendingChanges leaves these values.
NoPending ==
  [MinFreq |-> 0, MaxFreq |-> 0, Governor |-> "", EnergyPref |-> "",
   Online |-> TRUE, hasMinFreq |-> FALSE, hasMaxFreq |-> FALSE,
   hasGovernor |-> FALSE, hasEnergyPref |-> FALSE, hasOnline |-> FALSE]
\* Neither applySuccess nor applyFailed was emitted yet.
NoReport ==
  [reported |-> FALSE, allSucceeded |-> FALSE, targeted |-> {}, stale |-> {}]

\* No batchCompleted was emitted yet.
NoEvent ==
  [span |-> 0, allSucceeded |-> TRUE, errors |-> <<>>, doneAt |-> {}]

VARIABLES
  \* ---- helper service
  authorizedSenders,  \* m_authorizedSenders: cache key -> bool
  present,            \* units listed in /sys/devices/system/cpu/present
  online,             \* units listed in /sys/devices/system/cpu/online
  onlineFile,         \* units that have a cpuN/online control file
  scaling_min_freq,   \* cpufreq/scaling_min_freq of each unit
  scaling_max_freq,   \* cpufreq/scaling_max_freq of each unit
  scaling_governor,   \* cpufreq/scaling_governor of each unit
  energy_pref,        \* cpufreq/energy_performance_preference of each unit
  eppAvailable,       \* energy_performance_available_preferences (driver-wide)
  eppFile,            \* whether energy_performance_preference exists
  svcPc,              \* position of the service: idle, before the first or the
                      \* second write of update_cpu_settings, or returning
  call,               \* the call being handled (NoCall when idle)
  m_idleTimer,        \* ticks since the idle timer was started; -1: not running
  quietTicks,         \* ticks since a call was last received (or since registration)
  bus,                \* what the system bus answered to registerService
  exitBy,             \* what made the process leave: "none" while it runs
  \* ---- operation scheduler
  m_operationQueue,
  m_operationInProgress,
  m_batchMode,
  m_batchErrors,
  m_batchHadErrors,
  m_connected,
  inFlight,           \* watchers of asynchronous calls awaiting `finished`
  \* ---- scheduler history (what the caller and the signals' receivers saw)
  nEnqueued,          \* operations enqueued so far; the next gets id nEnqueued + 1
  nBatches,           \* beginBatch calls so far; the open span has this number
  spanOpen,           \* the caller is between beginBatch and endBatch
  opSpan,             \* id -> the span it was enqueued in (0: outside any span)
  issued,             \* ids in the order their remote calls were issued
  completed,          \* ids whose handling is over (reply consumed, or never sent)
  failedOps,          \* ids that failed (error reply, non-zero code, not connected)
  emitted,            \* span -> batchCompleted emissions while it was the last opened
  lastEvent,          \* the last batchCompleted emission
  \* ---- CpuSettings of one unit (m_cpu)
  m_orig,             \* m_origFreqMin, m_origFreqMax, m_origGovernor, ...
  m_new,              \* m_newFreqMin, m_newFreqMax, m_newGovernor, ...
  m_governors,        \* governors the unit offered when last read
  lastApply,          \* the CpuSettings::applyChanges call that has just returned
  lastSet,            \* the call of a name setter, with an unlisted name, that has just returned
  \* ---- Application and its CpuListModel
  sysfs,              \* the kernel files of the units the application shows
  m_cpuSettings,      \* unit -> the values its CpuSettings object read last
  m_currentCpu,
  m_allCpusSelected,
  m_pending,          \* m_pendingMinFreq, m_hasPendingMinFreq, ...
  m_hasUnsavedChanges,
  nSets,              \* setter calls so far
  cpusToApply,        \* the units of the batch built last
  lastReport,         \* the last applySuccess / applyFailed of onBatchCompleted
  applyReturn,        \* how the applyChanges call that has just returned ended
  \* ---- reading a unit list of the kernel (cpu/present, cpu/online, ...)
  listFile,           \* the file: the parts written into it and its text
  parsed              \* the result of the parseCpuList call that has returned

svcVars ==
  <<authorizedSenders, present, online, onlineFile, scaling_min_freq,
    scaling_max_freq, scaling_governor, energy_pref, eppAvailable, eppFile,
    svcPc, call, m_idleTimer, quietTicks, bus, exitBy>>
schedVars ==
  <<m_operationQueue, m_operationInProgress, m_batchMode, m_batchErrors,
    m_batchHadErrors, m_connected, inFlight>>
histVars ==
  <<nEnqueued, nBatches, spanOpen, opSpan, issued, completed, failedOps,
    emitted, lastEvent>>
\* Everything outside the helper service process.
csVars == <<m_orig, m_new, m_governors, lastApply, lastSet>>
appVars ==
  <<sysfs, m_cpuSettings, m_currentCpu, m_allCpusSelected, m_pending,
    m_hasUnsavedChanges, nSets, cpusToApply, lastReport, applyReturn>>
guiVars == <<csVars, appVars>>
parseVars == <<listFile, parsed>>
clientVars == <<schedVars, histVars, guiVars, parseVars>>
vars == <<svcVars, schedVars, histVars, guiVars, parseVars>>

\* =================================================================
\* Helper service: authorization
\* =================================================================

\* cacheKey = sender + actionId (string concatenation).
CacheKeyOfAction(sender, actionId) == actionId
CacheKey(sender, actionId) == sender \o actionId

CacheHitNever(cache, cacheKey) == FALSE
CacheHit(cache, cacheKey) == cacheKey \in DOMAIN cache

ShouldCacheAnyGrant(isAuthorized, isChallenge) == isAuthorized
ShouldCache(isAuthorized, isChallenge) == isAuthorized /\ ~isChallenge

\* m_authorizedSenders[cacheKey] = true
CacheStore(cache, cacheKey) ==
  [k \in DOMAIN cache \cup {cacheKey} |-> IF k = cacheKey THEN TRUE ELSE cache[k]]

\* The decision read off the authority's reply.
PolkitDecisionFailOpen(reply) ==
  IF reply.type = "error" THEN TRUE
  ELSE IF reply.type = "empty" THEN FALSE
  ELSE reply.isAuthorized
PolkitDecision(reply) ==
  IF reply.type = "error" THEN FALSE
  ELSE IF reply.type = "empty" THEN FALSE
  ELSE reply.isAuthorized

\* checkPolkitAuthorization: the decision, the cache afterwards, and where the
\* decision came from.  `reply` is what the authority would answer if asked.
checkPolkitAuthorization(cache, sender, actionId, reply) ==
  LET cacheKey == CacheKey(sender, actionId) IN
  IF CacheHit(cache, cacheKey)
  THEN [result |-> cache[cacheKey], cache |-> cache, via |-> "cache",
        sender |-> sender, reply |-> NoReply]
  ELSE IF reply.type \in {"error", "empty"}
  THEN [result |-> PolkitDecision(reply), cache |-> cache, via |-> "polkit",
        sender |-> sender, reply |-> reply]
  ELSE [result |-> PolkitDecision(reply),
        cache |-> IF ShouldCache(reply.isAuthorized, reply.isChallenge)
                  THEN CacheStore(cache, cacheKey) ELSE cache,
        via |-> "polkit", sender |-> sender, reply |-> reply]

\* isAuthorized: a call that did not come over D-Bus is always authorized.
isAuthorizedByPolkitOnly(cache, fromDBus, sender, reply) ==
  checkPolkitAuthorization(cache, sender, ActionId, reply)
isAuthorized(cache, fromDBus, sender, reply) ==
  IF ~fromDBus
  THEN [result |-> TRUE, cache |-> cache, via |-> "local",
        sender |-> "", reply |-> NoReply]
  ELSE checkPolkitAuthorization(cache, sender, ActionId, reply)

\* =================================================================
\* Helper service: kernel files
\* =================================================================

isPresent(cpu) == cpu \in present
isOnlineAlways(cpu) == TRUE
isOnline(cpu) == cpu \in online

\* The order of the two writes of update_cpu_settings.
WriteOrderMinFirst(freq_min, freq_max, curMin, curMax) == <<"min", "max">>
WriteOrderMaxFirstUnlessRaising(freq_min, freq_max, curMin, curMax) ==
  IF freq_max < curMin THEN <<"min", "max">>
  ELSE IF freq_min > curMax THEN <<"min", "max">>
  ELSE <<"max", "min">>
WriteOrder(freq_min, freq_max, curMin, curMax) ==
  IF freq_max < curMin THEN <<"min", "max">>
  ELSE IF freq_min > curMax THEN <<"max", "min">>
  ELSE <<"min", "max">>

\* The record of a call: who asked, how it was authorized, what it did.
NoCall ==
  [method |-> "none", via |-> "none", sender |-> "", reply |-> NoReply,
   authorized |-> FALSE, cpu |-> 0, freq_min |-> 0, freq_max |-> 0,
   pref |-> "", valid |-> FALSE, order |-> <<>>, success |-> TRUE,
   nWrites |-> 0, refused |-> FALSE, nFailed |-> 0, returned |-> FALSE,
   ret |-> 0]

Received(method, cpu, auth) ==
  [NoCall EXCEPT !.method = method, !.cpu = cpu, !.via = auth.via,
                 !.sender = auth.sender, !.reply = auth.reply,
                 !.authorized = auth.result]

Return(c, code) == [c EXCEPT !.returned = TRUE, !.ret = code]


\* Arguments a caller may pass: the present units and one that does not exist.
CpuArgs == Cpus \cup {1}

\* if (!isAuthorized()) return -1;
DeniedNever(auth) == FALSE
Denied(auth) == ~auth.result

sysfsVars ==
  <<present, online, onlineFile, scaling_min_freq, scaling_max_freq,
    scaling_governor, energy_pref, eppAvailable, eppFile>>

\* What the kernel can do with a value written to one of the two frequency
\* files: take it, or, when it would put the minimum above the maximum,
\* refuse it (the premise of the write order: "min <= max must always be
\* true").  writeSysfsFile returns true either way: it streams the value
\* into the opened file and never looks at the stream's or the file's
\* status.
KernelTakes(which, freq_min, freq_max, curMin, curMax) ==
  {TRUE} \cup
    IF \/ which = "min" /\ freq_min > curMax
       \/ which = "max" /\ freq_max < curMin
    THEN {FALSE} ELSE {}

\* One writeSysfsFile of update_cpu_settings on the pair `cur`: whether the
\* file was opened, and the pair afterwards.
FreqWrite(cur, which, freq_min, freq_max) ==
  {[opened |-> FALSE, pair |-> cur]}
  \cup {[opened |-> TRUE,
          pair |-> IF ~taken THEN cur
                   ELSE IF which = "min" THEN [cur EXCEPT !.min = freq_min]
                   ELSE [cur EXCEPT !.max = freq_max]] :
          taken \in KernelTakes(which, freq_min, freq_max, cur.min, cur.max)}

\* The two writes of update_cpu_settings and its return value, for a caller
\* that waits for the reply.
UpdateCpuSettingsResults(curMin, curMax, freq_min, freq_max) ==
  LET order == WriteOrder(freq_min, freq_max, curMin, curMax) IN
  UNION {{[ret |-> IF a.opened /\ b.opened THEN 0 ELSE -13,
           min |-> b.pair.min, max |-> b.pair.max] :
            b \in FreqWrite(a.pair, order[2], freq_min, freq_max)} :
          a \in FreqWrite([min |-> curMin, max |-> curMax], order[1],
                          freq_min, freq_max)}

\* writeSysfsFile on one of the two frequency files of call.cpu: `ok` is
\* whether the value reached the file.
WriteFreqFile(which, ok) ==
  /\ IF ok /\ which = "min"
     THEN scaling_min_freq' = [scaling_min_freq EXCEPT ![call.cpu] = call.freq_min]
     ELSE UNCHANGED scaling_min_freq
  /\ IF ok /\ which = "max"
     THEN scaling_max_freq' = [scaling_max_freq EXCEPT ![call.cpu] = call.freq_max]
     ELSE UNCHANGED scaling_max_freq

\* void HelperService::resetIdleTimer(): m_idleTimer.start(...) restarts the
\* single-shot timer at its full duration.
resetIdleTimerNever(t) == t
resetIdleTimer(t) == IF m_idleTimeoutSecs > 0 THEN 0 ELSE t

\* The first statement of every exposed method but quit().  isPresent and
\* isOnline restart the timer again through get_cpus_present and
\* get_cpus_online; within one handler that changes nothing.
CallReceived ==
  /\ m_idleTimer' = resetIdleTimer(m_idleTimer)
  /\ quietTicks' = 0
  /\ UNCHANGED <<bus, exitBy>>

lifeVars == <<m_idleTimer, quietTicks, bus, exitBy>>

\* The query methods: get_cpus_*, get_cpu_*, cpu_allowed_offline.  They ask
\* for no authorization and write nothing; what they read is not kept in the
\* call's record.
Query ==
  /\ svcPc = "idle"
  /\ UNCHANGED clientVars
  /\ CallReceived
  /\ \E method \in QueryMethods, cpu \in CpuArgs :
       call' = Return([NoCall EXCEPT !.method = method, !.cpu = cpu], 0)
  /\ svcPc' = "return"
  /\ UNCHANGED <<authorizedSenders, sysfsVars>>

\* int HelperService::isauthorized()
isauthorized ==
  /\ svcPc = "idle"
  /\ UNCHANGED clientVars
  /\ CallReceived
  /\ \E caller \in Callers :
       LET auth == isAuthorized(authorizedSenders, caller.fromDBus, caller.sender,
                               caller.reply) IN
       /\ authorizedSenders' = auth.cache
       /\ call' = Return(Received("isauthorized", 0, auth),
                         IF auth.result THEN 1 ELSE 0)
  /\ svcPc' = "return"
  /\ UNCHANGED sysfsVars

\* int HelperService::update_cpu_settings(cpu, freq_min, freq_max), up to the
\* choice of the write order.
update_cpu_settings ==
  /\ svcPc = "idle"
  /\ UNCHANGED clientVars
  /\ CallReceived
  /\ \E caller \in Callers,
        cpu \in CpuArgs, freq_min \in FreqArgs, freq_max \in FreqArgs :
       LET auth == isAuthorized(authorizedSenders, caller.fromDBus, caller.sender,
                               caller.reply)
           c == Received("update_cpu_settings", cpu, auth)
       IN
       /\ authorizedSenders' = auth.cache
       /\ IF Denied(auth)
          THEN call' = Return(c, -1) /\ svcPc' = "return"
          ELSE IF ~isPresent(cpu) \/ ~isOnline(cpu)
          THEN call' = Return(c, -1) /\ svcPc' = "return"
          ELSE LET curMin == scaling_min_freq[cpu]
                   curMax == scaling_max_freq[cpu]
               IN /\ call' = [c EXCEPT
                                !.freq_min = freq_min,
                                !.freq_max = freq_max,
                                !.valid = curMin <= curMax /\ freq_min <= freq_max,
                                !.order = WriteOrder(freq_min, freq_max, curMin, curMax)]
                  /\ svcPc' = "write1"
  /\ UNCHANGED sysfsVars

\* The first writeSysfsFile of update_cpu_settings.
update_cpu_settings_write1 ==
  /\ svcPc = "write1"
  /\ UNCHANGED <<clientVars, lifeVars>>
  /\ \E ok \in BOOLEAN :
       \E taken \in IF ok THEN KernelTakes(call.order[1], call.freq_min,
                                           call.freq_max,
                                           scaling_min_freq[call.cpu],
                                           scaling_max_freq[call.cpu])
                    ELSE {FALSE} :
         /\ WriteFreqFile(call.order[1], taken)
         /\ call' = [call EXCEPT !.nWrites = @ + 1, !.success = @ /\ ok,
                                 !.refused = @ \/ (ok /\ ~taken),
                                 !.nFailed = @ + (IF ok /\ taken THEN 0 ELSE 1)]
  /\ svcPc' = "write2"
  /\ UNCHANGED <<authorizedSenders, present, online, onlineFile,
                 scaling_governor, energy_pref, eppAvailable, eppFile>>

\* The second writeSysfsFile of update_cpu_settings, and its return.
update_cpu_settings_write2 ==
  /\ svcPc = "write2"
  /\ UNCHANGED <<clientVars, lifeVars>>
  /\ \E ok \in BOOLEAN :
       \E taken \in IF ok THEN KernelTakes(call.order[2], call.freq_min,
                                           call.freq_max,
                                           scaling_min_freq[call.cpu],
                                           scaling_max_freq[call.cpu])
                    ELSE {FALSE} :
         /\ WriteFreqFile(call.order[2], taken)
         /\ call' = [call EXCEPT !.nWrites = @ + 1, !.success = @ /\ ok,
                                 !.refused = @ \/ (ok /\ ~taken),
                                 !.nFailed = @ + (IF ok /\ taken THEN 0 ELSE 1),
                                 !.returned = TRUE,
                                 !.ret = IF call.success /\ ok THEN 0 ELSE -13]
  /\ svcPc' = "return"
  /\ UNCHANGED <<authorizedSenders, present, online, onlineFile,
                 scaling_governor, energy_pref, eppAvailable, eppFile>>

\* int HelperService::update_cpu_governor(cpu, governor).  The kernel keeps
\* the old governor when the written name is not one it knows; the service
\* only sees whether the file could be opened.
update_cpu_governor ==
  /\ svcPc = "idle"
  /\ UNCHANGED clientVars
  /\ CallReceived
  /\ \E caller \in Callers,
        cpu \in CpuArgs, g \in GovernorRequests, ok \in BOOLEAN :
       LET auth == isAuthorized(authorizedSenders, caller.fromDBus, caller.sender,
                               caller.reply)
           c == Received("update_cpu_governor", cpu, auth)
       IN
       /\ authorizedSenders' = auth.cache
       /\ IF Denied(auth)
          THEN call' = Return(c, -1) /\ UNCHANGED scaling_governor
          ELSE IF ~isPresent(cpu) \/ ~isOnline(cpu)
          THEN call' = Return(c, -1) /\ UNCHANGED scaling_governor
          ELSE /\ call' = Return([c EXCEPT !.nWrites = 1, !.success = ok],
                                 IF ok THEN 0 ELSE -13)
               /\ scaling_governor' =
                    IF ok /\ g \in Governors
                    THEN [scaling_governor EXCEPT ![cpu] = g]
                    ELSE scaling_governor
  /\ svcPc' = "return"
  /\ UNCHANGED <<present, online, onlineFile, scaling_min_freq,
                 scaling_max_freq, energy_pref, eppAvailable, eppFile>>

\* available.contains(pref), over get_cpu_energy_preferences(cpu)
PrefAvailableAny(available, pref) == TRUE
PrefAvailable(available, pref) == pref \in available

\* int HelperService::update_cpu_energy_prefs(cpu, pref)
update_cpu_energy_prefs ==
  /\ svcPc = "idle"
  /\ UNCHANGED clientVars
  /\ CallReceived
  /\ \E caller \in Callers,
        cpu \in CpuArgs, pref \in EnergyPrefRequests, ok \in BOOLEAN :
       LET auth == isAuthorized(authorizedSenders, caller.fromDBus, caller.sender,
                               caller.reply)
           c == [Received("update_cpu_energy_prefs", cpu, auth)
                   EXCEPT !.pref = pref]
       IN
       /\ authorizedSenders' = auth.cache
       /\ IF Denied(auth)
          THEN call' = Return(c, -1) /\ UNCHANGED energy_pref
          ELSE IF ~isPresent(cpu) \/ ~isOnline(cpu)
          THEN call' = Return(c, -1) /\ UNCHANGED energy_pref
          ELSE IF ~PrefAvailable(eppAvailable, pref)
          THEN call' = Return(c, 0) /\ UNCHANGED energy_pref
          ELSE IF ~eppFile
          THEN call' = Return(c, 0) /\ UNCHANGED energy_pref
          ELSE /\ call' = Return([c EXCEPT !.nWrites = 1, !.success = ok],
                                 IF ok THEN 0 ELSE -13)
               /\ energy_pref' =
                    IF ok THEN [energy_pref EXCEPT ![cpu] = pref] ELSE energy_pref
  /\ svcPc' = "return"
  /\ UNCHANGED <<present, online, onlineFile, scaling_min_freq,
                 scaling_max_freq, scaling_governor, eppAvailable, eppFile>>

\* int HelperService::set_cpu_online(cpu)
set_cpu_online ==
  /\ svcPc = "idle"
  /\ UNCHANGED clientVars
  /\ CallReceived
  /\ \E caller \in Callers,
        cpu \in CpuArgs, ok \in BOOLEAN :
       LET auth == isAuthorized(authorizedSenders, caller.fromDBus, caller.sender,
                               caller.reply)
           c == Received("set_cpu_online", cpu, auth)
       IN
       /\ authorizedSenders' = auth.cache
       /\ IF Denied(auth)
          THEN call' = Return(c, -1) /\ UNCHANGED online
          ELSE IF cpu \notin onlineFile
          THEN call' = Return(c, -1) /\ UNCHANGED online
          ELSE /\ call' = Return([c EXCEPT !.nWrites = 1, !.success = ok],
                                 IF ok THEN 0 ELSE -13)
               /\ online' = IF ok THEN online \cup {cpu} ELSE online
  /\ svcPc' = "return"
  /\ UNCHANGED <<present, onlineFile, scaling_min_freq, scaling_max_freq,
                 scaling_governor, energy_pref, eppAvailable, eppFile>>

\* int HelperService::set_cpu_offline(cpu)
set_cpu_offline ==
  /\ svcPc = "idle"
  /\ UNCHANGED clientVars
  /\ CallReceived
  /\ \E caller \in Callers,
        cpu \in CpuArgs, ok \in BOOLEAN :
       LET auth == isAuthorized(authorizedSenders, caller.fromDBus, caller.sender,
                               caller.reply)
           c == Received("set_cpu_offline", cpu, auth)
       IN
       /\ authorizedSenders' = auth.cache
       /\ IF Denied(auth)
          THEN call' = Return(c, -1) /\ UNCHANGED online
          ELSE IF cpu \notin onlineFile
          THEN call' = Return(c, -1) /\ UNCHANGED online
          ELSE /\ call' = Return([c EXCEPT !.nWrites = 1, !.success = ok],
                                 IF ok THEN 0 ELSE -13)
               /\ online' = IF ok THEN online \ {cpu} ELSE online
  /\ svcPc' = "return"
  /\ UNCHANGED <<present, onlineFile, scaling_min_freq, scaling_max_freq,
                 scaling_governor, energy_pref, eppAvailable, eppFile>>

\* The handler has returned: the reply goes out and the event loop waits for
\* the next call.
EventLoop ==
  /\ svcPc = "return"
  /\ UNCHANGED <<clientVars, lifeVars>>
  /\ svcPc' = "idle"
  /\ call' = NoCall
  /\ UNCHANGED <<authorizedSenders, sysfsVars>>

\* What the system bus may answer to registerService.
BusAnswers ==
  [isConnected : BOOLEAN, registerService : BOOLEAN, registerObject : BOOLEAN]
NoBus ==
  [isConnected |-> FALSE, registerService |-> FALSE, registerObject |-> FALSE]

\* bool HelperService::registerService(): the three checks in their order; a
\* later one is not made once an earlier one failed.
RegisteredWithoutObject(b) == b.isConnected /\ b.registerService
Registered(b) == b.isConnected /\ b.registerService /\ b.registerObject

\* main(): registerService(), then `return 1` or app.exec().
registerService ==
  /\ svcPc = "main"
  /\ UNCHANGED clientVars
  /\ \E b \in BusAnswers :
       /\ ~b.isConnected => ~b.registerService
       /\ ~b.registerService => ~b.registerObject
       /\ bus' = b
       /\ IF Registered(b)
          THEN /\ m_idleTimer' = resetIdleTimer(m_idleTimer)
               /\ svcPc' = "idle"
               /\ exitBy' = "none"
          ELSE /\ m_idleTimer' = m_idleTimer
               /\ svcPc' = "exited"
               /\ exitBy' = "registerService"
  /\ quietTicks' = 0
  /\ UNCHANGED <<authorizedSenders, sysfsVars, call>>

\* QCoreApplication::quit(): app.exec() returns and main with it; the timer
\* goes with the service object.
Quit(by) ==
  /\ svcPc' = "exited"
  /\ exitBy' = by
  /\ m_idleTimer' = -1
  /\ UNCHANGED <<authorizedSenders, sysfsVars, call, quietTicks, bus>>

\* void HelperService::quit()
quit ==
  /\ svcPc = "idle"
  /\ UNCHANGED clientVars
  /\ Quit("quit")

\* void HelperService::onIdleTimeout(): the single-shot timer has run its
\* full duration.
onIdleTimeout ==
  /\ svcPc = "idle"
  /\ m_idleTimer = m_idleTimeoutSecs
  /\ UNCHANGED clientVars
  /\ Quit("onIdleTimeout")

\* static void signalHandler(int): SIGINT or SIGTERM.
signalHandler ==
  /\ svcPc = "idle"
  /\ UNCHANGED clientVars
  /\ Quit("signalHandler")

\* A tick of the clock while the event loop waits.  Handlers are taken to
\* run in no time.
Tick ==
  /\ svcPc = "idle"
  /\ m_idleTimer >= 0
  /\ m_idleTimer < m_idleTimeoutSecs
  /\ UNCHANGED clientVars
  /\ m_idleTimer' = m_idleTimer + 1
  /\ quietTicks' = IF quietTicks < m_idleTimeoutSecs THEN quietTicks + 1 ELSE quietTicks
  /\ UNCHANGED <<authorizedSenders, sysfsVars, svcPc, call, bus, exitBy>>

\* The service after construction, over a kernel state with valid bounds.
SvcInit ==
  /\ authorizedSenders = <<>>
  /\ present = Cpus
  /\ online = Cpus
  /\ onlineFile \in SUBSET Cpus
  /\ scaling_min_freq \in [Cpus -> Freqs]
  /\ scaling_max_freq \in [Cpus -> Freqs]
  /\ \A c \in Cpus : scaling_min_freq[c] <= scaling_max_freq[c]
  /\ scaling_governor = [c \in Cpus |-> "powersave"]
  /\ energy_pref = [c \in Cpus |-> "power"]
  /\ eppAvailable \in {{}, EnergyPrefs}
  /\ eppFile \in BOOLEAN
  /\ svcPc = "main"
  /\ call = NoCall
  /\ m_idleTimer = -1
  /\ quietTicks = 0
  /\ bus = NoBus
  /\ exitBy = "none"

Next ==
  \/ registerService
  \/ Query
  \/ isauthorized
  \/ update_cpu_settings
  \/ update_cpu_settings_write1
  \/ update_cpu_settings_write2
  \/ update_cpu_governor
  \/ update_cpu_energy_prefs
  \/ set_cpu_online
  \/ set_cpu_offline
  \/ EventLoop
  \/ Tick
  \/ quit
  \/ onIdleTimeout
  \/ signalHandler

\* The scheduler after construction, before anything was enqueued.
SchedIdle ==
  /\ m_operationQueue = <<>>
  /\ m_operationInProgress = FALSE
  /\ m_batchMode = FALSE
  /\ m_batchErrors = <<>>
  /\ m_batchHadErrors = FALSE
  /\ m_connected = TRUE
  /\ inFlight = {}
  /\ nEnqueued = 0
  /\ nBatches = 0
  /\ spanOpen = FALSE
  /\ opSpan = <<>>
  /\ issued = <<>>
  /\ completed = {}
  /\ failedOps = {}
  /\ emitted = <<>>
  /\ lastEvent = NoEvent

\* No CpuSettings object exists.
CpuSettingsIdle ==
  /\ m_orig = NoSettings
  /\ m_new = NoSettings
  /\ m_governors = {}
  /\ lastApply = NoApply
  /\ lastSet = NoSet

\* No Application object exists.
AppIdle ==
  /\ sysfs = <<>>
  /\ m_cpuSettings = <<>>
  /\ m_currentCpu = 0
  /\ m_allCpusSelected = FALSE
  /\ m_pending = NoPending
  /\ m_hasUnsavedChanges = FALSE
  /\ nSets = 0
  /\ cpusToApply = {}
  /\ lastReport = NoReport
  /\ applyReturn = "none"

\* No unit list was read.
NoFile == [parts |-> <<>>, text |-> <<>>]
NoParse == [by |-> "none", result |-> <<>>]
ParseIdle ==
  /\ listFile = NoFile
  /\ parsed = NoParse

\* The helper service serving calls.
Init == SvcInit /\ SchedIdle /\ CpuSettingsIdle /\ AppIdle /\ ParseIdle
Spec == Init /\ [][Next]_vars

\* =================================================================
\* Operation scheduler (DbusHelper)
\* =================================================================

\* What an asynchronous call can come back with: a D-Bus error, or the int
\* the service method returned.
ResultCodes == {0, -1}
Outcomes ==
  {[isError |-> TRUE, value |-> 0]}
    \cup {[isError |-> FALSE, value |-> v] : v \in ResultCodes}

\* The scheduler's members and what its caller and its signals' receivers
\* have seen so far, as one value.
SchedState ==
  [queue |-> m_operationQueue, inProgress |-> m_operationInProgress,
   batchMode |-> m_batchMode, batchErrors |-> m_batchErrors,
   batchHadErrors |-> m_batchHadErrors, connected |-> m_connected,
   inFlight |-> inFlight, nEnqueued |-> nEnqueued, nBatches |-> nBatches,
   spanOpen |-> spanOpen, opSpan |-> opSpan, issued |-> issued,
   completed |-> completed, failedOps |-> failedOps, emitted |-> emitted,
   lastEvent |-> lastEvent]

SetSched(s) ==
  /\ m_operationQueue' = s.queue
  /\ m_operationInProgress' = s.inProgress
  /\ m_batchMode' = s.batchMode
  /\ m_batchErrors' = s.batchErrors
  /\ m_batchHadErrors' = s.batchHadErrors
  /\ m_connected' = s.connected
  /\ inFlight' = s.inFlight
  /\ nEnqueued' = s.nEnqueued
  /\ nBatches' = s.nBatches
  /\ spanOpen' = s.spanOpen
  /\ opSpan' = s.opSpan
  /\ issued' = s.issued
  /\ completed' = s.completed
  /\ failedOps' = s.failedOps
  /\ emitted' = s.emitted
  /\ lastEvent' = s.lastEvent

\* Q_EMIT batchCompleted(allSucceeded, errors), as its receiver sees it: the
\* span the caller opened last and the operations that were over by then.
EmitNothing(s, allSucceeded, errors) == s
EmitBatchCompleted(s, allSucceeded, errors) ==
  [s EXCEPT !.emitted[s.nBatches] = @ + 1,
            !.lastEvent = [span |-> s.nBatches, allSucceeded |-> allSucceeded,
                           errors |-> errors, doneAt |-> s.completed]]

\* m_batchHadErrors = true; m_batchErrors.append(description + ": " + error).
\* An entry is kept as the description it starts with, which is the
\* operation's id here; the message after it is not kept.
RecordNoFailure(s, op) == [s EXCEPT !.completed = @ \cup {op.id}]
RecordFailure(s, op) ==
  [s EXCEPT !.batchHadErrors = TRUE,
            !.batchErrors = Append(@, op.id),
            !.failedOps = @ \cup {op.id},
            !.completed = @ \cup {op.id}]

\* m_operationQueue.dequeue()
DequeueLast(q) == [op |-> q[Len(q)], rest |-> SubSeq(q, 1, Len(q) - 1)]
Dequeue(q) == [op |-> Head(q), rest |-> Tail(q)]

\* void DbusHelper::processNextOperation()
processNextOperationNever(s) == s
RECURSIVE processNextOperation(_)
processNextOperation(s) ==
  IF s.queue = <<>>
  THEN LET s1 == [s EXCEPT !.inProgress = FALSE] IN
       IF s1.batchMode
       THEN [EmitBatchCompleted([s1 EXCEPT !.batchMode = FALSE],
                                ~s1.batchHadErrors, s1.batchErrors)
               EXCEPT !.batchErrors = <<>>, !.batchHadErrors = FALSE]
       ELSE s1
  ELSE LET d == Dequeue(s.queue)
           s1 == [s EXCEPT !.inProgress = TRUE, !.queue = d.rest]
       IN
       IF ~s1.connected
       THEN processNextOperation(RecordFailure(s1, d.op))
       ELSE [s1 EXCEPT !.inFlight = @ \cup {d.op},
                       !.issued = Append(@, d.op.id)]

\* if (!m_operationInProgress && !m_batchMode) processNextOperation();
ShouldStartUnlessBatch(inProgress, batchMode) == ~batchMode
ShouldStart(inProgress, batchMode) == ~inProgress /\ ~batchMode

\* The body of queueOperation(method, args, description): `what` holds the
\* method and its arguments.
Enqueue(s, what) ==
  LET op == [id |-> s.nEnqueued + 1,
             span |-> IF s.spanOpen THEN s.nBatches ELSE 0,
             method |-> what.method, cpu |-> what.cpu, args |-> what.args]
      s1 == [s EXCEPT !.queue = Append(@, op),
                      !.nEnqueued = op.id,
                      !.opSpan = Append(@, op.span)]
  IN IF ShouldStart(s1.inProgress, s1.batchMode)
     THEN processNextOperation(s1) ELSE s1

\* An operation whose method and arguments do not matter.
AnyOperation == [method |-> "", cpu |-> 0, args |-> <<>>]

\* void DbusHelper::queueOperation(method, args, description)
queueOperation ==
  /\ nEnqueued < MaxOps
  /\ UNCHANGED <<svcVars, guiVars, parseVars>>
  /\ SetSched(Enqueue(SchedState, AnyOperation))

\* The body of onAsyncCallFinished: the reply is looked at, then the next
\* operation is processed whatever the reply was.
FinishedStopOnFailure(s, w, outcome) ==
  LET s1 == [s EXCEPT !.inFlight = @ \ {w}] IN
  IF outcome.isError
  THEN RecordFailure(s1, w)
  ELSE IF outcome.value = 0
  THEN processNextOperation([s1 EXCEPT !.completed = @ \cup {w.id}])
  ELSE RecordFailure(s1, w)
Finished(s, w, outcome) ==
  LET s1 == [s EXCEPT !.inFlight = @ \ {w}] IN
  IF outcome.isError
  THEN processNextOperation(RecordFailure(s1, w))
  ELSE IF outcome.value = 0
  THEN processNextOperation([s1 EXCEPT !.completed = @ \cup {w.id}])
  ELSE processNextOperation(RecordFailure(s1, w))

\* void DbusHelper::onAsyncCallFinished(watcher)
onAsyncCallFinished ==
  /\ UNCHANGED <<svcVars, guiVars, parseVars>>
  /\ \E w \in inFlight, outcome \in Outcomes :
       SetSched(Finished(SchedState, w, outcome))

\* void DbusHelper::beginBatch()
BeginBatchWithoutMode(s) ==
  [s EXCEPT !.batchErrors = <<>>,
            !.batchHadErrors = FALSE,
            !.nBatches = @ + 1,
            !.emitted = Append(@, 0),
            !.spanOpen = TRUE]
BeginBatch(s) ==
  [s EXCEPT !.batchMode = TRUE,
            !.batchErrors = <<>>,
            !.batchHadErrors = FALSE,
            !.nBatches = @ + 1,
            !.emitted = Append(@, 0),
            !.spanOpen = TRUE]

beginBatch ==
  /\ ~spanOpen
  /\ nBatches < MaxBatches
  /\ UNCHANGED <<svcVars, guiVars, parseVars>>
  /\ SetSched(BeginBatch(SchedState))

\* void DbusHelper::endBatch()
EndBatchAlwaysDrains(s0) ==
  processNextOperation([s0 EXCEPT !.spanOpen = FALSE])
EndBatch(s0) ==
  LET s == [s0 EXCEPT !.spanOpen = FALSE] IN
  IF s.queue = <<>> /\ ~s.inProgress
  THEN EmitBatchCompleted([s EXCEPT !.batchMode = FALSE], TRUE, <<>>)
  ELSE IF ~s.inProgress
  THEN processNextOperation(s)
  ELSE s

endBatch ==
  /\ spanOpen
  /\ UNCHANGED <<svcVars, guiVars, parseVars>>
  /\ SetSched(EndBatch(SchedState))

\* The scheduler after construction: connectToService has set m_connected.
SchedInit ==
  /\ m_operationQueue = <<>>
  /\ m_operationInProgress = FALSE
  /\ m_batchMode = FALSE
  /\ m_batchErrors = <<>>
  /\ m_batchHadErrors = FALSE
  /\ m_connected \in BOOLEAN
  /\ inFlight = {}
  /\ nEnqueued = 0
  /\ nBatches = 0
  /\ spanOpen = FALSE
  /\ opSpan = <<>>
  /\ issued = <<>>
  /\ completed = {}
  /\ failedOps = {}
  /\ emitted = <<>>
  /\ lastEvent = NoEvent

\* One kernel state for the runs in which only the client acts.
SvcFixed ==
  /\ SvcInit
  /\ onlineFile = {}
  /\ \A c \in Cpus : scaling_min_freq[c] = 1 /\ scaling_max_freq[c] = 1
  /\ eppAvailable = {}
  /\ ~eppFile

SchedNext ==
  \/ queueOperation
  \/ onAsyncCallFinished
  \/ beginBatch
  \/ endBatch

\* The scheduler driven by any caller.
SchedStart == SchedInit /\ SvcFixed /\ CpuSettingsIdle /\ AppIdle /\ ParseIdle
SchedSpec == SchedStart /\ [][SchedNext]_vars

\* The same, where every call in flight comes back and every open batch is
\* closed.
SchedFairSpec ==
  SchedSpec /\ WF_vars(onAsyncCallFinished) /\ WF_vars(endBatch)

\* =================================================================
\* CpuSettings (one unit's original and pending values)
\* =================================================================

\* The unit the object stands for.
m_cpu == 0

\* The kernel files the client reads, as one value.
Kernel ==
  [present |-> present, onlineFile |-> onlineFile,
   eppAvailable |-> eppAvailable, eppFile |-> eppFile,
   online |-> online, min |-> scaling_min_freq, max |-> scaling_max_freq,
   governor |-> scaling_governor, energy_pref |-> energy_pref]

SetKernel(k) ==
  /\ online' = k.online
  /\ scaling_min_freq' = k.min
  /\ scaling_max_freq' = k.max
  /\ scaling_governor' = k.governor
  /\ energy_pref' = k.energy_pref
  /\ UNCHANGED <<present, onlineFile, eppAvailable, eppFile>>

\* SysfsReader::isOnline(cpu)
SysfsIsOnline(k, cpu) == cpu \in k.present /\ cpu \in k.online

\* SysfsReader::availableGovernors(cpu): the cpufreq directory of a unit is
\* there only while the unit is online.
availableGovernors(k, cpu) == IF cpu \in k.online THEN Governors ELSE {}

\* What updateFromSystem reads: scalingFreqs, currentGovernor,
\* currentEnergyPref, isOnline.
FromSystem(k, cpu) ==
  LET on == SysfsIsOnline(k, cpu) IN
  [FreqMin |-> IF on THEN k.min[cpu] ELSE 0,
   FreqMax |-> IF on THEN k.max[cpu] ELSE 0,
   Governor |-> IF on THEN k.governor[cpu] ELSE "OFFLINE",
   EnergyPref |-> IF k.eppFile THEN k.energy_pref[cpu] ELSE "",
   Online |-> on]

\* Constant after loadFromSystem.
m_canGoOffline == m_cpu \in onlineFile
m_energyPrefs == eppAvailable
m_energyPrefAvailable == eppAvailable # {}

\* The blocking calls of DbusHelper as CpuSettings sees them: the int that
\* comes back (-1 also for a D-Bus error or a denied caller) and the kernel
\* files afterwards.
SyncSetCpuOnline(k, cpu) ==
  {[ret |-> -1, kernel |-> k]}
  \cup IF cpu \in k.onlineFile
       THEN {[ret |-> 0, kernel |-> [k EXCEPT !.online = @ \cup {cpu}]],
             [ret |-> -13, kernel |-> k]}
       ELSE {}

SyncSetCpuOffline(k, cpu) ==
  {[ret |-> -1, kernel |-> k]}
  \cup IF cpu \in k.onlineFile
       THEN {[ret |-> 0, kernel |-> [k EXCEPT !.online = @ \ {cpu}]],
             [ret |-> -13, kernel |-> k]}
       ELSE {}

SyncUpdateCpuSettings(k, cpu, fmin, fmax) ==
  {[ret |-> -1, kernel |-> k]}
  \cup IF SysfsIsOnline(k, cpu)
       THEN {[ret |-> r.ret,
              kernel |-> [k EXCEPT !.min[cpu] = r.min, !.max[cpu] = r.max]] :
               r \in UpdateCpuSettingsResults(k.min[cpu], k.max[cpu], fmin, fmax)}
       ELSE {}

SyncUpdateCpuGovernor(k, cpu, governor) ==
  {[ret |-> -1, kernel |-> k]}
  \cup IF SysfsIsOnline(k, cpu)
       THEN {[ret |-> 0,
              kernel |-> IF governor \in Governors
                         THEN [k EXCEPT !.governor[cpu] = governor] ELSE k],
             [ret |-> -13, kernel |-> k]}
       ELSE {}

SyncUpdateCpuEnergyPrefs(k, cpu, pref) ==
  {[ret |-> -1, kernel |-> k]}
  \cup IF SysfsIsOnline(k, cpu)
       THEN IF PrefAvailable(k.eppAvailable, pref) /\ k.eppFile
            THEN {[ret |-> 0, kernel |-> [k EXCEPT !.energy_pref[cpu] = pref]],
                  [ret |-> -13, kernel |-> k]}
            ELSE {[ret |-> 0, kernel |-> k]}
       ELSE {}

isFreqChanged(orig, new) ==
  new.FreqMin # orig.FreqMin \/ new.FreqMax # orig.FreqMax
isGovernorChanged(orig, new) == new.Governor # orig.Governor
isEnergyPrefChanged(orig, new) == new.EnergyPref # orig.EnergyPref
isOnlineChanged(orig, new) == new.Online # orig.Online
isChangedButOnline(orig, new) ==
  \/ isFreqChanged(orig, new)
  \/ isGovernorChanged(orig, new)
  \/ isEnergyPrefChanged(orig, new)
isChanged(orig, new) ==
  \/ isFreqChanged(orig, new)
  \/ isGovernorChanged(orig, new)
  \/ isEnergyPrefChanged(orig, new)
  \/ isOnlineChanged(orig, new)

\* if (ret != 0) return ret;  after the online/offline call
OnlineFailureIgnored(ret) == FALSE
OnlineFailureReturns(ret) == ret # 0

\* if (m_newOnline) { ... }  around the frequency, governor and
\* energy-preference calls
OtherSettingsAlways(newOnline) == TRUE
OtherSettingsApplied(newOnline) == newOnline

\* int CpuSettings::applyChanges(): every way the call can go, given how
\* each remote call comes back.  `calls` are the remote methods called, in
\* order, and `rets` what each came back with; `refreshed` is whether
\* updateFromSystem() ran before the return.
applyChangesOutcomes(orig, new, k) ==
  LET r0 == [calls |-> <<>>, rets |-> <<>>, ret |-> 0, kernel |-> k]
      Call(r, method, outs) ==
        {[calls |-> Append(r.calls, method), rets |-> Append(r.rets, o.ret),
          ret |-> o.ret, kernel |-> o.kernel] : o \in outs}
      Returns(r, code, refreshed) ==
        [calls |-> r.calls, rets |-> r.rets, ret |-> code, kernel |-> r.kernel,
         refreshed |-> refreshed]
      EnergyPref(r) ==
        IF isEnergyPrefChanged(orig, new) /\ m_energyPrefAvailable
        THEN {IF x.ret # 0 THEN Returns(x, -12, FALSE) ELSE Returns(x, 0, TRUE) :
                x \in Call(r, "update_cpu_energy_prefs",
                           SyncUpdateCpuEnergyPrefs(r.kernel, m_cpu, new.EnergyPref))}
        ELSE {Returns(r, 0, TRUE)}
      Governor(r) ==
        IF isGovernorChanged(orig, new)
        THEN UNION {IF x.ret # 0 THEN {Returns(x, -11, FALSE)} ELSE EnergyPref(x) :
                      x \in Call(r, "update_cpu_governor",
                                 SyncUpdateCpuGovernor(r.kernel, m_cpu, new.Governor))}
        ELSE EnergyPref(r)
      Freq(r) ==
        IF isFreqChanged(orig, new)
        THEN UNION {IF x.ret # 0 THEN {Returns(x, -13, FALSE)} ELSE Governor(x) :
                      x \in Call(r, "update_cpu_settings",
                                 SyncUpdateCpuSettings(r.kernel, m_cpu,
                                                       new.FreqMin, new.FreqMax))}
        ELSE Governor(r)
      OnlineFirst ==
        IF isOnlineChanged(orig, new)
        THEN IF new.Online
             THEN Call(r0, "set_cpu_online", SyncSetCpuOnline(k, m_cpu))
             ELSE IF m_canGoOffline
             THEN Call(r0, "set_cpu_offline", SyncSetCpuOffline(k, m_cpu))
             ELSE {r0}
        ELSE {r0}
  IN UNION {IF OnlineFailureReturns(r.ret) THEN {Returns(r, r.ret, FALSE)}
            ELSE IF OtherSettingsApplied(new.Online) THEN Freq(r)
            ELSE {Returns(r, 0, TRUE)} : r \in OnlineFirst}

\* void CpuSettings::updateFromSystem(), as an action of its own (Q_INVOKABLE)
CpuSettings_updateFromSystem ==
  /\ m_orig' = FromSystem(Kernel, m_cpu)
  /\ m_new' = FromSystem(Kernel, m_cpu)
  /\ m_governors' = availableGovernors(Kernel, m_cpu)
  /\ lastApply' = NoApply
  /\ lastSet' = NoSet
  /\ UNCHANGED <<svcVars, schedVars, histVars, parseVars, appVars>>

\* int CpuSettings::applyChanges()
CpuSettings_applyChanges ==
  /\ \E r \in applyChangesOutcomes(m_orig, m_new, Kernel) :
       /\ SetKernel(r.kernel)
       /\ lastApply' = [called |-> TRUE, calls |-> r.calls, rets |-> r.rets,
                        ret |-> r.ret, refreshed |-> r.refreshed,
                        offlinePending |-> m_orig.Online /\ ~m_new.Online]
       /\ IF r.refreshed
          THEN /\ m_orig' = FromSystem(r.kernel, m_cpu)
               /\ m_new' = FromSystem(r.kernel, m_cpu)
               /\ m_governors' = availableGovernors(r.kernel, m_cpu)
          ELSE UNCHANGED <<m_orig, m_new, m_governors>>
  /\ lastSet' = NoSet
  /\ UNCHANGED <<authorizedSenders, svcPc, call, lifeVars, schedVars, histVars, parseVars, appVars>>

\* void CpuSettings::resetToSystem()
CpuSettings_resetToSystem ==
  /\ m_new' = m_orig
  /\ lastApply' = NoApply
  /\ lastSet' = NoSet
  /\ UNCHANGED <<m_orig, m_governors, svcVars, schedVars, histVars, parseVars, appVars>>

\* A setter stores the value when it differs from the pending one.
SetPending(field, value) ==
  /\ m_new' = [m_new EXCEPT ![field] = value]
  /\ lastApply' = NoApply
  /\ UNCHANGED <<m_orig, m_governors, svcVars, schedVars, histVars, parseVars, appVars>>

\* The body of setGovernor and of setEnergyPref: when the test passes the
\* name is stored and `signal` and changedStateChanged are emitted;
\* otherwise the setter returns.
SetName(field, name, accepted) ==
  IF accepted THEN SetPending(field, name)
  ELSE /\ lastApply' = NoApply
       /\ UNCHANGED <<m_orig, m_new, m_governors, svcVars, schedVars,
                      histVars, parseVars, appVars>>

\* A call with a name outside `list` is remembered with what it emitted.
Remember(method, name, list, signal, accepted) ==
  IF name \in list THEN NoSet
  ELSE [method |-> method, value |-> name,
        emitted |-> IF accepted THEN {signal, "changedStateChanged"} ELSE {}]

\* m_governors.contains(gov), m_energyPrefs.contains(pref)
containsAny(list, name) == TRUE
contains(list, name) == name \in list

\* void CpuSettings::setFreqMin(double freq): the value in kHz
CpuSettings_setFreqMin ==
  \E freqKHz \in Freqs :
    m_new.FreqMin # freqKHz /\ SetPending("FreqMin", freqKHz) /\ lastSet' = NoSet

\* void CpuSettings::setFreqMax(double freq): the value in kHz
CpuSettings_setFreqMax ==
  \E freqKHz \in Freqs :
    m_new.FreqMax # freqKHz /\ SetPending("FreqMax", freqKHz) /\ lastSet' = NoSet

\* void CpuSettings::setGovernor(gov)
CpuSettings_setGovernor ==
  \E gov \in GovernorRequests :
    LET accepted == m_new.Governor # gov /\ contains(m_governors, gov) IN
    /\ SetName("Governor", gov, accepted)
    /\ lastSet' = Remember("setGovernor", gov, m_governors, "governorChanged",
                           accepted)

\* void CpuSettings::setEnergyPref(pref)
CpuSettings_setEnergyPref ==
  \E pref \in EnergyPrefRequests :
    LET accepted == m_new.EnergyPref # pref /\ contains(m_energyPrefs, pref) IN
    /\ SetName("EnergyPref", pref, accepted)
    /\ lastSet' = Remember("setEnergyPref", pref, m_energyPrefs,
                           "energyPrefChanged", accepted)

\* void CpuSettings::setOnline(on)
CpuSettings_setOnline ==
  \E on \in BOOLEAN :
    m_new.Online # on /\ SetPending("Online", on) /\ lastSet' = NoSet

\* CpuSettings::CpuSettings -> loadFromSystem(), over any kernel state the
\* service model starts from; the helper and the scheduler are left alone.
CpuSettingsInit ==
  /\ SvcInit
  /\ SchedIdle
  /\ ParseIdle
  /\ m_orig = FromSystem(Kernel, m_cpu)
  /\ m_new = FromSystem(Kernel, m_cpu)
  /\ m_governors = availableGovernors(Kernel, m_cpu)
  /\ lastApply = NoApply
  /\ lastSet = NoSet
  /\ AppIdle

CpuSettingsNext ==
  \/ CpuSettings_setFreqMin
  \/ CpuSettings_setFreqMax
  \/ CpuSettings_setGovernor
  \/ CpuSettings_setEnergyPref
  \/ CpuSettings_setOnline
  \/ CpuSettings_resetToSystem
  \/ CpuSettings_updateFromSystem
  \/ CpuSettings_applyChanges

CpuSettingsSpec == CpuSettingsInit /\ [][CpuSettingsNext]_vars

\* =================================================================
\* Application (pending overrides, batch apply) and its CpuListModel
\* =================================================================

\* The units of the machine the application runs on.
AppCpus == {0, 1}

\* CpuListModel::m_currentIndex: 0 from construction; nothing calls
\* setCurrentIndex.
m_currentIndex == 0

\* The kernel files when the application starts: every unit online, every
\* unit but 0 with an online control file.
AppKernel(epp) ==
  [present |-> AppCpus, onlineFile |-> AppCpus \ {0},
   eppAvailable |-> epp, eppFile |-> epp # {},
   online |-> AppCpus,
   min |-> [c \in AppCpus |-> 1], max |-> [c \in AppCpus |-> MaxFreq],
   governor |-> [c \in AppCpus |-> "powersave"],
   energy_pref |-> [c \in AppCpus |-> "power"]]

\* SysfsReader::availableCpus(): the present units whose cpufreq files
\* exist, in the order of the present list.
availableCpus(k) == {cpu \in k.present : cpu \in k.online}

\* SysfsReader::isEnergyPrefAvailable(cpu)
isEnergyPrefAvailable(k, cpu) == k.eppAvailable # {}

\* SysfsReader::minFrequency / maxFrequency: scalingFreqs(cpu)
minFrequency(k, cpu) == IF SysfsIsOnline(k, cpu) THEN k.min[cpu] ELSE 0
maxFrequency(k, cpu) == IF SysfsIsOnline(k, cpu) THEN k.max[cpu] ELSE 0

\* A set of units as the ascending list the kernel prints.
RECURSIVE CpuList(_)
CpuList(cpus) ==
  IF cpus = {} THEN <<>>
  ELSE LET c == CHOOSE x \in cpus : \A y \in cpus : x <= y
       IN <<c>> \o CpuList(cpus \ {c})

\* if (... && cpu != 0), if (cpu != 0): unit 0 gets no online/offline call
OnlineStateAppliesToAll(cpu) == TRUE
OnlineStateApplies(cpu) == cpu # 0

\* The operations Application::applyChanges enqueues for one unit.
OperationsFor(p, k, cpu) ==
  (IF p.hasMinFreq \/ p.hasMaxFreq
   THEN <<[method |-> "update_cpu_settings", cpu |-> cpu,
           args |-> <<IF p.hasMinFreq THEN p.MinFreq ELSE minFrequency(k, cpu),
                      IF p.hasMaxFreq THEN p.MaxFreq ELSE maxFrequency(k, cpu)>>]>>
   ELSE <<>>)
  \o (IF p.hasGovernor /\ p.Governor # ""
      THEN <<[method |-> "update_cpu_governor", cpu |-> cpu,
              args |-> <<p.Governor>>]>>
      ELSE <<>>)
  \o (IF p.hasEnergyPref /\ p.EnergyPref # "" /\ isEnergyPrefAvailable(k, cpu)
      THEN <<[method |-> "update_cpu_energy_prefs", cpu |-> cpu,
              args |-> <<p.EnergyPref>>]>>
      ELSE <<>>)
  \o (IF p.hasOnline /\ OnlineStateApplies(cpu)
      THEN <<[method |-> IF p.Online THEN "set_cpu_online" ELSE "set_cpu_offline",
              cpu |-> cpu, args |-> <<>>]>>
      ELSE <<>>)

\* for (int cpu : cpusToApply) { ... }
RECURSIVE BatchOperations(_, _, _)
BatchOperations(p, k, cpus) ==
  IF cpus = <<>> THEN <<>>
  ELSE OperationsFor(p, k, Head(cpus)) \o BatchOperations(p, k, Tail(cpus))

\* The ...Async wrappers called one after the other.
RECURSIVE EnqueueAll(_, _)
EnqueueAll(s, ops) ==
  IF ops = <<>> THEN s ELSE EnqueueAll(Enqueue(s, Head(ops)), Tail(ops))

\* void Application::clearPendingChanges()
clearPendingChangesButOnline(p) ==
  [NoPending EXCEPT !.hasOnline = p.hasOnline, !.Online = p.Online]
clearPendingChanges(p) ==
  [p EXCEPT !.MinFreq = 0, !.MaxFreq = 0, !.Governor = "", !.EnergyPref = "",
            !.Online = TRUE, !.hasMinFreq = FALSE, !.hasMaxFreq = FALSE,
            !.hasGovernor = FALSE, !.hasEnergyPref = FALSE, !.hasOnline = FALSE]

\* void CpuListModel::refresh(): updateFromSystem() of the unit at
\* m_currentIndex.
CpuListModel_refresh(settings, k) ==
  IF m_currentIndex \in DOMAIN settings
  THEN [settings EXCEPT ![m_currentIndex] = FromSystem(k, m_currentIndex)]
  ELSE settings

\* void Application::onBatchCompleted(allSucceeded, errors): refreshCpuInfo(),
\* then applySuccess or applyFailed.  `stale` are the units of the batch
\* whose CpuSettings values differ from the kernel's at that moment.
onBatchCompleted(s, k, targeted) ==
  /\ m_cpuSettings' = CpuListModel_refresh(m_cpuSettings, k)
  /\ lastReport' =
       [reported |-> TRUE, allSucceeded |-> s.lastEvent.allSucceeded,
        targeted |-> targeted,
        stale |-> {cpu \in targeted :
                     CpuListModel_refresh(m_cpuSettings, k)[cpu]
                       # FromSystem(k, cpu)}]

\* The slot runs inside the step in which batchCompleted was emitted.
Connected(s0, s, k, targeted) ==
  IF s.emitted # s0.emitted
  THEN onBatchCompleted(s, k, targeted)
  ELSE UNCHANGED <<m_cpuSettings, lastReport>>

\* The five setters: store the value, mark it pending, setUnsavedChanges(true).
SetOverride(field, has, value) ==
  /\ applyReturn' = "none"
  /\ nSets' = nSets + 1
  /\ m_pending' = [m_pending EXCEPT ![field] = value, ![has] = TRUE]
  /\ m_hasUnsavedChanges' = TRUE
  /\ UNCHANGED <<svcVars, schedVars, histVars, parseVars, csVars, sysfs, m_cpuSettings,
                 m_currentCpu, m_allCpusSelected, cpusToApply, lastReport>>

\* void Application::setMinFrequency(freqKhz)
setMinFrequency ==
  \E freqKhz \in Freqs :
    nSets < MaxSets /\ SetOverride("MinFreq", "hasMinFreq", freqKhz)

\* void Application::setMaxFrequency(freqKhz)
setMaxFrequency ==
  \E freqKhz \in Freqs :
    nSets < MaxSets /\ SetOverride("MaxFreq", "hasMaxFreq", freqKhz)

\* void Application::setGovernor(governor)
setGovernor ==
  \E governor \in Governors \cup {""} :
    nSets < MaxSets /\ SetOverride("Governor", "hasGovernor", governor)

\* void Application::setEnergyPref(pref)
setEnergyPref ==
  \E pref \in EnergyPrefs \cup {""} :
    nSets < MaxSets /\ SetOverride("EnergyPref", "hasEnergyPref", pref)

\* void Application::setCpuOnline(online)
setCpuOnline ==
  \E on \in BOOLEAN : nSets < MaxSets /\ SetOverride("Online", "hasOnline", on)

\* void Application::setCurrentCpu(cpu)
setCurrentCpu ==
  /\ applyReturn' = "none"
  /\ \E cpu \in AppCpus :
       /\ m_currentCpu # cpu
       /\ m_currentCpu' = cpu
  /\ m_allCpusSelected' = FALSE
  /\ UNCHANGED <<svcVars, schedVars, histVars, parseVars, csVars, sysfs, m_cpuSettings,
                 m_pending, m_hasUnsavedChanges, nSets, cpusToApply, lastReport>>

\* void Application::setAllCpusSelected(all)
setAllCpusSelected ==
  /\ applyReturn' = "none"
  /\ \E all \in BOOLEAN :
       /\ m_allCpusSelected # all
       /\ m_allCpusSelected' = all
  /\ UNCHANGED <<svcVars, schedVars, histVars, parseVars, csVars, sysfs, m_cpuSettings,
                 m_currentCpu, m_pending, m_hasUnsavedChanges, nSets,
                 cpusToApply, lastReport>>

\* void Application::applyChanges() leaving through one of its three early
\* returns: nothing to apply; helper not connected (applyFailed is emitted);
\* an operation in progress.  Only the status message is set.
EarlyReturnUnlessBusy ==
  IF ~m_hasUnsavedChanges THEN "No changes to apply"
  ELSE IF ~m_connected THEN "D-Bus helper not connected"
  ELSE "none"
EarlyReturn ==
  IF ~m_hasUnsavedChanges THEN "No changes to apply"
  ELSE IF ~m_connected THEN "D-Bus helper not connected"
  ELSE IF m_operationInProgress THEN "Operation already in progress"
  ELSE "none"

applyChanges_return ==
  /\ EarlyReturn # "none"
  /\ applyReturn' = EarlyReturn
  /\ UNCHANGED <<svcVars, schedVars, histVars, parseVars, csVars, sysfs,
                 m_cpuSettings, m_currentCpu, m_allCpusSelected, m_pending,
                 m_hasUnsavedChanges, nSets, cpusToApply, lastReport>>

\* void Application::applyChanges(), past its three early returns
applyChanges ==
  /\ EarlyReturn = "none"
  /\ applyReturn' = "Applying changes..."
  /\ nBatches < MaxBatches
  /\ LET cpus == IF m_allCpusSelected THEN availableCpus(sysfs)
                 ELSE {m_currentCpu}
         ops == BatchOperations(m_pending, sysfs, CpuList(cpus))
         s0 == BeginBatch(SchedState)
         s1 == EnqueueAll(s0, ops)
         s2 == EndBatch(s1)
     IN /\ m_pending' = clearPendingChanges(m_pending)
        /\ m_hasUnsavedChanges' = FALSE
        /\ cpusToApply' = cpus
        /\ SetSched(s2)
        /\ Connected(s1, s2, sysfs, cpus)
  /\ UNCHANGED <<svcVars, parseVars, csVars, sysfs, m_currentCpu, m_allCpusSelected, nSets>>

\* struct CpuProfileEntry, as a stored profile holds it for a unit.
ProfileEntry(on, freq, gov) ==
  [online |-> on, freqMin |-> freq, freqMax |-> freq,
   governor |-> gov, energyPref |-> ""]

\* The stored profiles (Profile::settings: unit -> entry): one whose entries
\* are offline and name a governor, one that brings unit 1 up with a governor.
Profiles ==
  {[cpu \in AppCpus |-> ProfileEntry(FALSE, 0, "performance")],
   [cpu \in {1} |-> ProfileEntry(TRUE, 0, "performance")]}

\* The operations Application::applyProfile enqueues for one entry.
ProfileOperationsFor(entry, k, cpu) ==
  IF cpu \notin availableCpus(k) THEN <<>>
  ELSE IF OnlineStateApplies(cpu) /\ ~entry.online
  THEN <<[method |-> "set_cpu_offline", cpu |-> cpu, args |-> <<>>]>>
  ELSE (IF OnlineStateApplies(cpu)
        THEN <<[method |-> "set_cpu_online", cpu |-> cpu, args |-> <<>>]>>
        ELSE <<>>)
       \o (IF entry.freqMin > 0 /\ entry.freqMax > 0
           THEN <<[method |-> "update_cpu_settings", cpu |-> cpu,
                   args |-> <<entry.freqMin, entry.freqMax>>]>>
           ELSE <<>>)
       \o (IF entry.governor # ""
           THEN <<[method |-> "update_cpu_governor", cpu |-> cpu,
                   args |-> <<entry.governor>>]>>
           ELSE <<>>)
       \o (IF entry.energyPref # "" /\ isEnergyPrefAvailable(k, cpu)
           THEN <<[method |-> "update_cpu_energy_prefs", cpu |-> cpu,
                   args |-> <<entry.energyPref>>]>>
           ELSE <<>>)

\* for (auto it = profile->settings.constBegin(); ...): in key order
RECURSIVE ProfileOperations(_, _, _)
ProfileOperations(profile, k, cpus) ==
  IF cpus = <<>> THEN <<>>
  ELSE ProfileOperationsFor(profile[Head(cpus)], k, Head(cpus))
         \o ProfileOperations(profile, k, Tail(cpus))

\* void Application::applyProfile(profileName), past its three early returns
applyProfile ==
  /\ applyReturn' = "none"
  /\ m_connected
  /\ ~m_operationInProgress
  /\ nBatches < MaxBatches
  /\ \E profile \in Profiles :
       LET ops == ProfileOperations(profile, sysfs, CpuList(DOMAIN profile))
           s0 == BeginBatch(SchedState)
           s1 == EnqueueAll(s0, ops)
           s2 == EndBatch(s1)
       IN /\ cpusToApply' = DOMAIN profile \cap availableCpus(sysfs)
          /\ SetSched(s2)
          /\ Connected(s1, s2, sysfs, DOMAIN profile \cap availableCpus(sysfs))
  /\ UNCHANGED <<svcVars, parseVars, csVars, sysfs, m_currentCpu, m_allCpusSelected,
                 m_pending, m_hasUnsavedChanges, nSets>>

\* void Application::resetChanges()
resetChanges ==
  /\ applyReturn' = "none"
  /\ m_pending' = clearPendingChanges(m_pending)
  /\ m_hasUnsavedChanges' = FALSE
  /\ UNCHANGED <<svcVars, schedVars, histVars, parseVars, csVars, sysfs, m_cpuSettings,
                 m_currentCpu, m_allCpusSelected, nSets, cpusToApply, lastReport>>

\* void Application::refreshCpuInfo(), called from the page
refreshCpuInfo ==
  /\ applyReturn' = "none"
  /\ m_cpuSettings' = CpuListModel_refresh(m_cpuSettings, sysfs)
  /\ UNCHANGED <<svcVars, schedVars, histVars, parseVars, csVars, sysfs, m_currentCpu,
                 m_allCpusSelected, m_pending, m_hasUnsavedChanges, nSets,
                 cpusToApply, lastReport>>

\* What the helper does with an operation and what comes back for it.
HelperCall(k, w) ==
  CASE w.method = "update_cpu_settings" ->
         SyncUpdateCpuSettings(k, w.cpu, w.args[1], w.args[2])
    [] w.method = "update_cpu_governor" ->
         SyncUpdateCpuGovernor(k, w.cpu, w.args[1])
    [] w.method = "update_cpu_energy_prefs" ->
         SyncUpdateCpuEnergyPrefs(k, w.cpu, w.args[1])
    [] w.method = "set_cpu_online" -> SyncSetCpuOnline(k, w.cpu)
    [] w.method = "set_cpu_offline" -> SyncSetCpuOffline(k, w.cpu)

AsyncResults(k, w) ==
  {[outcome |-> [isError |-> TRUE, value |-> 0], kernel |-> k]}
  \cup {[outcome |-> [isError |-> FALSE, value |-> o.ret], kernel |-> o.kernel] :
          o \in HelperCall(k, w)}

\* DbusHelper::onAsyncCallFinished for an operation of the application, and
\* Application::onBatchCompleted when that ends the batch.
onAsyncCallFinished_batch ==
  /\ applyReturn' = "none"
  /\ \E w \in inFlight :
       \E r \in AsyncResults(sysfs, w) :
         LET s == Finished(SchedState, w, r.outcome) IN
         /\ sysfs' = r.kernel
         /\ SetSched(s)
         /\ Connected(SchedState, s, r.kernel, cpusToApply)
  /\ UNCHANGED <<svcVars, parseVars, csVars, m_currentCpu, m_allCpusSelected, m_pending,
                 m_hasUnsavedChanges, nSets, cpusToApply>>

\* Application::Application: CpuListModel::loadCpus() builds one CpuSettings
\* per available unit; nothing is pending.
AppInit ==
  /\ SvcFixed
  /\ SchedInit
  /\ CpuSettingsIdle
  /\ ParseIdle
  /\ sysfs \in {AppKernel(epp) : epp \in {{}, EnergyPrefs}}
  /\ m_cpuSettings = [cpu \in availableCpus(sysfs) |-> FromSystem(sysfs, cpu)]
  /\ m_currentCpu = 0
  /\ m_allCpusSelected = FALSE
  /\ m_pending = NoPending
  /\ m_hasUnsavedChanges = FALSE
  /\ nSets = 0
  /\ cpusToApply = {}
  /\ lastReport = NoReport
  /\ applyReturn = "none"

AppNext ==
  \/ setMinFrequency
  \/ setMaxFrequency
  \/ setGovernor
  \/ setEnergyPref
  \/ setCpuOnline
  \/ setCurrentCpu
  \/ setAllCpusSelected
  \/ applyChanges_return
  \/ applyChanges
  \/ applyProfile
  \/ resetChanges
  \/ refreshCpuInfo
  \/ onAsyncCallFinished_batch

AppSpec == AppInit /\ [][AppNext]_vars

\* =================================================================
\* Unit lists: parseCpuList of HelperService and of SysfsReader
\* =================================================================

\* A text is a sequence of characters.
DigitChars == <<"0", "1", "2", "3", "4", "5", "6", "7", "8", "9">>
IsDigit(c) == \E d \in 1..10 : DigitChars[d] = c
DigitValue(c) == (CHOOSE d \in 1..10 : DigitChars[d] = c) - 1
\* QChar::isSpace
IsSpace(c) == c \in {" ", "\n", "\t"}

\* QString::number(n) for n >= 0
RECURSIVE Number(_)
Number(n) ==
  IF n < 10 THEN <<DigitChars[n + 1]>>
  ELSE Number(n \div 10) \o <<DigitChars[(n % 10) + 1]>>

\* QString::trimmed()
RECURSIVE TrimLeft(_)
TrimLeft(t) ==
  IF t # <<>> /\ IsSpace(Head(t)) THEN TrimLeft(Tail(t)) ELSE t
RECURSIVE TrimRight(_)
TrimRight(t) ==
  IF t # <<>> /\ IsSpace(t[Len(t)])
  THEN TrimRight(SubSeq(t, 1, Len(t) - 1)) ELSE t
trimmed(t) == TrimRight(TrimLeft(t))

\* QString::split(sep): the pieces between the separators, empty ones kept.
RECURSIVE SplitFrom(_, _, _)
SplitFrom(t, sep, piece) ==
  IF t = <<>> THEN <<piece>>
  ELSE IF Head(t) = sep THEN <<piece>> \o SplitFrom(Tail(t), sep, <<>>)
  ELSE SplitFrom(Tail(t), sep, Append(piece, Head(t)))
split(t, sep) == SplitFrom(t, sep, <<>>)

\* Qt::SkipEmptyParts
SkipEmptyParts(pieces) == SelectSeq(pieces, LAMBDA x : x # <<>>)

\* QString::contains(ch)
containsChar(t, ch) == \E i \in DOMAIN t : t[i] = ch

\* QString::toInt(): surrounding whitespace is ignored; 0 when the rest is
\* not a decimal number.
RECURSIVE DecimalValue(_)
DecimalValue(t) ==
  IF t = <<>> THEN 0
  ELSE 10 * DecimalValue(SubSeq(t, 1, Len(t) - 1)) + DigitValue(t[Len(t)])
toInt(t) ==
  LET u == trimmed(t) IN
  IF u = <<>> \/ \E i \in DOMAIN u : ~IsDigit(u[i]) THEN 0
  ELSE DecimalValue(u)

\* for (int i = start; i <= end; ++i) result.append(i);
AppendRangeExclusive(result, start, end) ==
  result \o [i \in 1..(IF end > start THEN end - start ELSE 0)
               |-> start + i - 1]
AppendRange(result, start, end) ==
  result \o [i \in 1..(IF end >= start THEN end - start + 1 ELSE 0)
               |-> start + i - 1]

\* The loop over the parts, the same in both classes.
RECURSIVE ParseParts(_, _)
ParseParts(pieces, result) ==
  IF pieces = <<>> THEN result
  ELSE LET part == Head(pieces)
           range == split(part, "-")
       IN ParseParts(Tail(pieces),
            IF containsChar(part, "-")
            THEN IF Len(range) = 2
                 THEN AppendRange(result, toInt(range[1]), toInt(range[2]))
                 ELSE result
            ELSE Append(result, toInt(part)))

\* QList<int> HelperService::parseCpuList(content)
HelperService_parseCpuList(content) ==
  IF trimmed(content) = <<>> THEN <<>>
  ELSE ParseParts(SkipEmptyParts(split(trimmed(content), ",")), <<>>)

\* QList<int> SysfsReader::parseCpuList(content)
SysfsReader_parseCpuList(content) ==
  IF content = <<>> THEN <<>>
  ELSE ParseParts(split(content, ","), <<>>)

\* QString HelperService::readSysfsFile(path): the text as it is
readSysfsFile(file) == file.text
\* QString SysfsReader::readFile(path): the text, trimmed
readFile(file) == trimmed(file.text)

\* What a unit list can hold between its commas: one index, a range
\* start-end (also with start > end), or a part with two dashes.
Indices == 0..MaxIndex
ListParts ==
  {<<n>> : n \in Indices}
    \cup {<<a, b>> : a \in Indices, b \in Indices}
    \cup {<<a, b, c>> : a \in {1}, b \in {2}, c \in {3, MaxIndex}}

\* The text of one part, and of a list of parts.
PartText(part) ==
  IF Len(part) = 1 THEN Number(part[1])
  ELSE IF Len(part) = 2 THEN Number(part[1]) \o <<"-">> \o Number(part[2])
  ELSE Number(part[1]) \o <<"-">> \o Number(part[2]) \o <<"-">>
         \o Number(part[3])
RECURSIVE ListText(_)
ListText(parts) ==
  IF parts = <<>> THEN <<>>
  ELSE IF Len(parts) = 1 THEN PartText(parts[1])
  ELSE PartText(parts[1]) \o <<",">> \o ListText(Tail(parts))

\* "0-3,5,7-9"
ExampleParts == <<<<0, 3>>, <<5>>, <<7, 9>>>>

\* The lists read: up to MaxParts parts and the example, each as the kernel
\* prints it (a newline after it), bare, or after blanks only.
ListFiles ==
  {[parts |-> parts, text |-> ListText(parts) \o tail] :
     parts \in UNION {[1..n -> ListParts] : n \in 0..MaxParts}
                 \cup {ExampleParts},
     tail \in {<<>>, <<"\n">>}}
  \cup {[parts |-> <<>>, text |-> blank] : blank \in {<<" ">>, <<" ", "\n">>}}

\* QList<int> HelperService::get_cpus_present() (and _online, _offline)
get_cpus_present ==
  /\ parsed.by = "none"
  /\ parsed' = [by |-> "HelperService",
                result |-> HelperService_parseCpuList(readSysfsFile(listFile))]
  /\ UNCHANGED <<svcVars, schedVars, histVars, guiVars, listFile>>

\* QList<int> SysfsReader::presentCpus() (and onlineCpus)
presentCpus ==
  /\ parsed.by = "none"
  /\ parsed' = [by |-> "SysfsReader",
                result |-> SysfsReader_parseCpuList(readFile(listFile))]
  /\ UNCHANGED <<svcVars, schedVars, histVars, guiVars, listFile>>

ParseInit ==
  /\ SvcFixed
  /\ SchedIdle
  /\ CpuSettingsIdle
  /\ AppIdle
  /\ listFile \in ListFiles
  /\ parsed = NoParse

ParseNext ==
  \/ get_cpus_present
  \/ presentCpus

ParseSpec == ParseInit /\ [][ParseNext]_vars

\* =================================================================
\* Properties of the helper service
\* =================================================================

\* The step in which the service receives a call and decides its authorization.
ReceiveStep == call.method = "none" /\ call'.method # "none"

\* C1: a mutating method whose caller is denied, or whose policy-authority
\* call failed, returns -1 and writes no kernel control file.
C1_DeniedWritesNothing ==
  /\ [](call.method \in MutatingMethods /\ ~call.authorized
          => /\ svcPc = "return"
             /\ call.returned
             /\ call.ret = -1
             /\ call.nWrites = 0)
  /\ [][ReceiveStep /\ call'.method \in MutatingMethods /\ ~call'.authorized
          => UNCHANGED sysfsVars]_vars

C1_Witness ==
  /\ call.method = "set_cpu_offline"
  /\ call.cpu \in onlineFile
  /\ call.via = "polkit"
  /\ call.reply.type = "error"
  /\ call.ret = -1

\* C2: update_cpu_settings on a present, online unit whose bounds are
\* cur_min <= cur_max, asked for new_min <= new_max, both writes succeeding:
\* min <= max holds after the first write and after the second, and the
\* unit ends at (new_min, new_max).
C2_OrderedWritesKeepMinLeMax ==
  call.method = "update_cpu_settings" /\ call.valid /\ call.success
    => /\ svcPc = "write2"
          => scaling_min_freq[call.cpu] <= scaling_max_freq[call.cpu]
       /\ svcPc = "return" /\ call.nWrites = 2
          => /\ scaling_min_freq[call.cpu] <= scaling_max_freq[call.cpu]
             /\ scaling_min_freq[call.cpu] = call.freq_min
             /\ scaling_max_freq[call.cpu] = call.freq_max

C2_Witness ==
  /\ call.method = "update_cpu_settings"
  /\ call.valid
  /\ call.success
  /\ call.order = <<"max", "min">>
  /\ svcPc = "return"
  /\ call.nWrites = 2

\* C8: the cache gains an entry for (caller, action) only from a reply with
\* is_authorized and not is_challenge; a challenge or a denial adds none;
\* every stored value is true.
C8_OnlyCleanGrantsCached ==
  /\ [](\A k \in DOMAIN authorizedSenders : authorizedSenders[k] = TRUE)
  /\ [][\A k \in DOMAIN authorizedSenders' \ DOMAIN authorizedSenders :
          /\ call'.via = "polkit"
          /\ call'.reply.type = "result"
          /\ call'.reply.isAuthorized
          /\ ~call'.reply.isChallenge
          /\ k = CacheKey(call'.sender, ActionId)]_vars
  /\ [][ReceiveStep /\ call'.via = "polkit"
          /\ (call'.reply.isChallenge \/ ~call'.reply.isAuthorized)
          => authorizedSenders' = authorizedSenders]_vars

C8_Witness ==
  /\ call.via = "polkit"
  /\ call.reply.isAuthorized
  /\ ~call.reply.isChallenge
  /\ CacheKey(call.sender, ActionId) \in DOMAIN authorizedSenders

\* C9: an error message or an empty reply from the policy authority makes the
\* decision false and leaves the cache as it was; the caller is never
\* authorized by a failed authority call.
C9_AuthorityFailureDenies ==
  [][ReceiveStep /\ call'.via = "polkit" /\ call'.reply.type \in {"error", "empty"}
       => /\ ~call'.authorized
          /\ authorizedSenders' = authorizedSenders
          /\ call'.returned
          /\ call'.ret = (IF call'.method = "isauthorized" THEN 0 ELSE -1)]_vars

C9_Witness ==
  /\ call.via = "polkit"
  /\ call.reply.type = "empty"
  /\ call.method = "update_cpu_governor"
  /\ ~call.authorized

\* C10: once (caller, action) is in the cache, every later authorization of
\* the pair returns the cached boolean without a policy-authority call, and
\* no entry is removed or overwritten.
C10_CacheIsStable ==
  /\ [][\A k \in DOMAIN authorizedSenders :
          k \in DOMAIN authorizedSenders'
            /\ authorizedSenders'[k] = authorizedSenders[k]]_vars
  /\ [][ReceiveStep /\ call'.via # "local"
          /\ CacheKey(call'.sender, ActionId) \in DOMAIN authorizedSenders
          => /\ call'.via = "cache"
             /\ call'.reply = NoReply
             /\ call'.authorized
                  = authorizedSenders[CacheKey(call'.sender, ActionId)]]_vars

C10_Witness ==
  /\ call.via = "cache"
  /\ call.authorized
  /\ call.method = "update_cpu_settings"
  /\ svcPc = "write1"

\* C11: for an online unit, hardware_min <= scaling_min <= scaling_max <=
\* hardware_max in every state reached through update_cpu_settings calls with
\* any requested pair, the state between the two writes included.
C11_WithinHardwareBounds ==
  \A c \in Cpus :
    isOnline(c) =>
      /\ cpuinfo_min_freq[c] <= scaling_min_freq[c]
      /\ scaling_min_freq[c] <= scaling_max_freq[c]
      /\ scaling_max_freq[c] <= cpuinfo_max_freq[c]

\* C12: every exposed method but quit() restarts the idle timer at its full
\* duration when the call is received, whether or not the call is then
\* authorized or succeeds, and the timer stays there while the call is
\* handled; the idle timeout fires only after a whole period in which no
\* call was received.
C12_EveryCallRestartsIdleTimer ==
  /\ [][ReceiveStep => m_idleTimer' = 0]_vars
  /\ [](call.method # "none" => m_idleTimer = 0)
  /\ [][exitBy = "none" /\ exitBy' = "onIdleTimeout"
          => quietTicks >= m_idleTimeoutSecs]_vars

C12_Witness ==
  /\ exitBy = "onIdleTimeout"
  /\ DOMAIN authorizedSenders # {}
  /\ scaling_governor[0] = "performance"

\* The lifecycle of the service as seen on the bus.  A process that left
\* because registration failed was never registered.
Lifecycle ==
  IF svcPc = "main" \/ exitBy = "registerService" THEN "Unregistered"
  ELSE IF svcPc = "exited" THEN "Terminated"
  ELSE "Registered"

\* C13: the lifecycle only moves Unregistered -> Registered -> Terminated.
\* registerService makes the service Registered and starts the idle timer
\* only when the bus is connected and the name and the object are both
\* registered; otherwise the timer is not started and the process exits.
\* quit() and the idle timeout lead from Registered to Terminated, and
\* nothing changes once the process has exited.
C13_LifecycleOrder ==
  /\ [][Lifecycle' # Lifecycle
          => \/ Lifecycle = "Unregistered" /\ Lifecycle' = "Registered"
             \/ Lifecycle = "Registered" /\ Lifecycle' = "Terminated"]_vars
  /\ [][Lifecycle = "Unregistered" /\ Lifecycle' = "Registered"
          => /\ bus'.isConnected /\ bus'.registerService /\ bus'.registerObject
             /\ m_idleTimer' = 0]_vars
  /\ [](m_idleTimer >= 0
          => bus.isConnected /\ bus.registerService /\ bus.registerObject)
  /\ [][svcPc = "main" /\ svcPc' # "main"
            /\ ~(bus'.isConnected /\ bus'.registerService /\ bus'.registerObject)
          => svcPc' = "exited" /\ m_idleTimer' = -1]_vars
  /\ [][exitBy = "none" /\ exitBy' \in {"quit", "onIdleTimeout"}
          => Lifecycle = "Registered" /\ Lifecycle' = "Terminated"]_vars
  /\ [][svcPc = "exited" => UNCHANGED vars]_vars

C13_Witness ==
  /\ Lifecycle = "Terminated"
  /\ exitBy = "quit"
  /\ DOMAIN authorizedSenders # {}

\* C15: update_cpu_settings, update_cpu_governor and update_cpu_energy_prefs
\* called by an authorized caller for a unit that is not present or not
\* online return -1 and write no kernel file.
C15_UnavailableUnitIsRefused ==
  [][ReceiveStep
       /\ call'.method \in {"update_cpu_settings", "update_cpu_governor",
                            "update_cpu_energy_prefs"}
       /\ call'.authorized
       /\ (call'.cpu \notin present \/ call'.cpu \notin online)
       => /\ svcPc' = "return"
          /\ call'.returned
          /\ call'.ret = -1
          /\ call'.nWrites = 0
          /\ UNCHANGED sysfsVars]_vars

C15_Witness ==
  /\ call.method = "update_cpu_settings"
  /\ call.authorized
  /\ call.via = "cache"
  /\ call.cpu \in present
  /\ call.cpu \notin online
  /\ call.ret = -1

\* C16: set_cpu_offline(0) returns -1 and writes nothing, for every caller,
\* authorized or not, and whatever control files the kernel offers.
C16_UnitZeroStaysOnline ==
  call.method = "set_cpu_offline" /\ call.cpu = 0
    => /\ call.returned
       /\ call.ret = -1
       /\ call.nWrites = 0

\* C17: update_cpu_energy_prefs(cpu, pref) by an authorized caller on a
\* present, online unit returns 0 and writes no file whenever pref is not in
\* the unit's list of supported preferences or the preference control file
\* does not exist.
C17_UnsupportedPreferenceIsNoOp ==
  [][ReceiveStep
       /\ call'.method = "update_cpu_energy_prefs"
       /\ call'.authorized
       /\ call'.cpu \in present /\ call'.cpu \in online
       /\ (call'.pref \notin eppAvailable \/ ~eppFile)
       => /\ svcPc' = "return"
          /\ call'.returned
          /\ call'.ret = 0
          /\ call'.nWrites = 0
          /\ UNCHANGED sysfsVars]_vars

C17_Witness ==
  /\ call.method = "update_cpu_energy_prefs"
  /\ call.authorized
  /\ call.cpu \in present /\ call.cpu \in online
  /\ call.pref = "bogus"
  /\ eppAvailable = EnergyPrefs
  /\ eppFile
  /\ call.returned
  /\ call.ret = 0

\* C23: update_cpu_settings chooses its write order from the bounds read at
\* the start of the call: min then max if new_max < cur_min, otherwise max
\* then min if new_min > cur_max, otherwise min then max; the order is not
\* chosen again after the first write and each write touches the file the
\* order names.  For current (800000, 2000000) and request
\* (2200000, 2500000) the order is max then min, and a call whose two writes
\* succeed ends at the requested pair.
C23_WriteOrderFromBoundsAtStart ==
  /\ [](svcPc = "write1"
         => call.order =
              IF call.freq_max < scaling_min_freq[call.cpu] THEN <<"min", "max">>
              ELSE IF call.freq_min > scaling_max_freq[call.cpu]
              THEN <<"max", "min">>
              ELSE <<"min", "max">>)
  /\ [][(svcPc = "write1" \/ svcPc = "write2")
         => (call'.order = call.order
             /\ (call.order[call.nWrites + 1] = "min"
                   => scaling_max_freq' = scaling_max_freq)
             /\ (call.order[call.nWrites + 1] = "max"
                   => scaling_min_freq' = scaling_min_freq))]_vars
  /\ [](WriteOrder(2200000, 2500000, 800000, 2000000) = <<"max", "min">>)
  /\ [](/\ call.method = "update_cpu_settings"
         /\ call.order = <<"max", "min">>
         /\ call.returned /\ call.ret = 0
         /\ call.freq_min <= call.freq_max
         => /\ scaling_min_freq[call.cpu] = call.freq_min
            /\ scaling_max_freq[call.cpu] = call.freq_max)

\* The scenario at the model's scale: bounds (1, 2), request (3, 3), written
\* max then min, both writes done.
C23_Witness ==
  /\ call.method = "update_cpu_settings"
  /\ call.freq_min = MaxFreq + 1
  /\ call.freq_max = MaxFreq + 1
  /\ call.order = <<"max", "min">>
  /\ call.returned /\ call.ret = 0
  /\ scaling_min_freq[call.cpu] = MaxFreq + 1
  /\ scaling_max_freq[call.cpu] = MaxFreq + 1

\* C24: update_cpu_settings returns -13 if and only if at least one of its
\* two file writes failed, that is, did not put its value into the file
\* (the second write is attempted whatever the first did, and a value that
\* was written stays).
C24_WriteFailedIffMinus13 ==
  (call.method = "update_cpu_settings" /\ call.returned /\ call.nWrites = 2)
    => (call.ret = -13 <=> (~call.success \/ call.refused))

\* C31: a call that does not arrive over the IPC transport (a local,
\* same-process call, whose message has no sender) is authorized without any
\* policy-authority call and without reading or changing the authorization
\* cache: whatever the cache holds, the call is authorized, no reply of the
\* authority is consumed and the cache is left as it was.
C31_LocalCallIsAuthorizedWithoutPolkit ==
  [][(/\ svcPc = "idle"
      /\ call'.method \in MutatingMethods \cup {"isauthorized"}
      /\ call'.sender = "")
     => (/\ call'.authorized
         /\ call'.via \notin {"polkit", "cache"}
         /\ call'.reply = NoReply
         /\ authorizedSenders' = authorizedSenders)]_vars

\* A local update_cpu_governor went through while the cache held a grant
\* of a bus peer.
C31_Witness ==
  /\ call.method = "update_cpu_governor"
  /\ call.sender = ""
  /\ call.authorized
  /\ call.returned /\ call.ret = 0
  /\ authorizedSenders # <<>>

\* C37: if exactly one of the two file writes of an update_cpu_settings
\* call fails, the unit's resulting (scaling_min, scaling_max) still
\* satisfies min <= max, for every current (cur_min <= cur_max) and
\* requested (new_min <= new_max) pair.  A write fails when its file cannot
\* be opened or the kernel refuses the value.
C37_OneFailedWriteKeepsMinLeMax ==
  (/\ call.method = "update_cpu_settings"
   /\ call.valid
   /\ call.returned
   /\ call.nWrites = 2
   /\ call.nFailed = 1)
    => scaling_min_freq[call.cpu] <= scaling_max_freq[call.cpu]

\* C38: the authorization decision returned to a caller B for an action
\* never depends on cache entries created for a different caller A: while
\* the cache holds no entry under B's own name and the action, a call of B
\* is decided by a policy-authority call made for B and by its reply alone,
\* whatever the cache holds for other callers.
C38_GrantOfOneCallerServesNoOther ==
  [][(/\ svcPc = "idle"
      /\ call'.method \in MutatingMethods \cup {"isauthorized"}
      /\ call'.sender # ""
      /\ (call'.sender \o ActionId) \notin DOMAIN authorizedSenders)
     => (/\ call'.via = "polkit"
         /\ call'.authorized
              <=> (call'.reply.type = "result" /\ call'.reply.isAuthorized))]_vars

\* The cache holds a grant of :1.7; :1.70 asked for the same action, the
\* authority was asked about it and said no.
C38_Witness ==
  /\ (":1.7" \o ActionId) \in DOMAIN authorizedSenders
  /\ (":1.70" \o ActionId) \notin DOMAIN authorizedSenders
  /\ call.sender = ":1.70"
  /\ call.via = "polkit"
  /\ call.reply.type = "result"
  /\ ~call.authorized
  /\ call.returned /\ call.ret = -1

\* =================================================================
\* Properties of CpuSettings
\* =================================================================

\* C18: CpuSettings::applyChanges refreshes the original values from the
\* system before it returns on every path: after success, after an
\* online/offline failure, and after a frequency, governor or
\* energy-preference failure.
C18_ApplyAlwaysRefreshes ==
  lastApply.called
    => /\ lastApply.refreshed
       /\ m_orig = FromSystem(Kernel, m_cpu)

\* C21: in every reachable state of a CpuSettings object, isChanged() is
\* true if and only if the pending value differs from the original value
\* for at least one of frequency minimum, frequency maximum, governor,
\* energy preference, online state.
C21_ChangedIffSomeFieldDiffers ==
  isChanged(m_orig, m_new)
    <=> \E field \in {"FreqMin", "FreqMax", "Governor", "EnergyPref", "Online"} :
          m_new[field] # m_orig[field]

\* Only the online state is pending, after an apply that refreshed.
C21_Witness ==
  /\ m_new.Online # m_orig.Online
  /\ m_new.FreqMin = m_orig.FreqMin
  /\ m_new.FreqMax = m_orig.FreqMax
  /\ m_new.Governor = m_orig.Governor
  /\ m_new.EnergyPref = m_orig.EnergyPref
  /\ isChanged(m_orig, m_new)

\* C22: setGovernor(g) with g outside the unit's supported governor list,
\* and setEnergyPref(p) with p outside the unit's supported preference list,
\* leave every pending and original value unchanged and emit no
\* notification (the setters return nothing, so no error is reported).
C22_UnsupportedNameIsSilentNoOp ==
  [][(\/ lastSet'.method = "setGovernor" /\ lastSet'.value \notin m_governors
      \/ lastSet'.method = "setEnergyPref" /\ lastSet'.value \notin m_energyPrefs)
     => /\ m_new' = m_new
        /\ m_orig' = m_orig
        /\ lastSet'.emitted = {}]_vars

\* setGovernor was called with a name the unit does not offer, which is not
\* the pending governor either.
C22_Witness ==
  /\ lastSet.method = "setGovernor"
  /\ lastSet.value \notin m_governors
  /\ lastSet.value # m_new.Governor
  /\ lastSet.emitted = {}

\* C25: in CpuSettings::applyChanges, when the pending online state differs
\* from the original, the online/offline call is made before any frequency,
\* governor or energy-preference call for the unit, and if it returns a
\* non-zero code that code is returned and no other call is made.
C25_OnlineFirstAndStopsOnFailure ==
  [][(lastApply'.called /\ m_new.Online # m_orig.Online)
     => (/\ \A i \in 1..Len(lastApply'.calls) :
              lastApply'.calls[i] \in {"set_cpu_online", "set_cpu_offline"}
                <=> i = 1 /\ (m_new.Online \/ m_canGoOffline)
         /\ (m_new.Online \/ m_canGoOffline)
              => /\ Len(lastApply'.calls) >= 1
                 /\ lastApply'.calls[1] =
                      IF m_new.Online THEN "set_cpu_online" ELSE "set_cpu_offline"
                 /\ lastApply'.rets[1] # 0
                      => /\ lastApply'.ret = lastApply'.rets[1]
                         /\ Len(lastApply'.calls) = 1)]_vars

\* The unit was to come online with other frequency bounds; set_cpu_online
\* failed and nothing else was called.
C25_Witness ==
  /\ lastApply.called
  /\ m_new.Online /\ ~m_orig.Online
  /\ m_new.FreqMin # m_orig.FreqMin
  /\ lastApply.calls = <<"set_cpu_online">>
  /\ lastApply.ret = -13

\* The remote methods the last applyChanges called.
Called == {lastApply.calls[i] : i \in DOMAIN lastApply.calls}

\* C28: in CpuSettings::applyChanges for a unit that stays or becomes online,
\* only an online/offline failure ends the sequence early: when the
\* frequency update was called and the governor is to change, the governor
\* update is attempted whatever the frequency update returned, and when the
\* governor update was called and the energy preference is to change, the
\* energy-preference update is attempted whatever the governor update
\* returned.
C28_OnlyOnlineFailureEndsEarly ==
  (lastApply.called /\ m_new.Online)
    => /\ ("update_cpu_settings" \in Called /\ isGovernorChanged(m_orig, m_new))
            => "update_cpu_governor" \in Called
       /\ (/\ "update_cpu_governor" \in Called
           /\ isEnergyPrefChanged(m_orig, m_new)
           /\ m_energyPrefAvailable)
            => "update_cpu_energy_prefs" \in Called

\* C39: in CpuSettings::applyChanges, a pending request to take offline a
\* unit whose canGoOffline is false issues no remote call at all; the method
\* returns 0 and the refresh discards the pending offline value, so the
\* request is dropped without any error being reported.
C39_OfflineRequestDroppedSilently ==
  [][(/\ lastApply'.called
      /\ m_orig.Online /\ ~m_new.Online
      /\ ~m_canGoOffline)
     => (/\ lastApply'.calls = <<>>
         /\ lastApply'.ret = 0
         /\ lastApply'.refreshed
         /\ UNCHANGED sysfsVars
         /\ m_orig' = FromSystem(Kernel, m_cpu)
         /\ m_new' = m_orig')]_vars

\* The unit has no online control file, its pending state was offline with
\* another governor pending: applyChanges called nothing, returned 0 and
\* the unit shows online again.
C39_Witness ==
  /\ lastApply.called
  /\ lastApply.offlinePending
  /\ ~m_canGoOffline
  /\ lastApply.calls = <<>>
  /\ lastApply.ret = 0
  /\ m_new.Online
  /\ m_new = m_orig

\* =================================================================
\* Properties of the Application
\* =================================================================

\* C19: the pending change set is cleared on every commit and on discard.
\* The step in which Application::applyChanges builds its batch leaves every
\* pending override absent and hasUnsavedChanges false; the step in which
\* the batch reports its outcome, succeeded or failed, does not bring any
\* of them back; resetChanges leaves the same empty state; and whenever
\* hasUnsavedChanges is false no override is held.
C19_PendingClearedOnCommitAndDiscard ==
  /\ [][applyChanges => m_pending' = NoPending /\ ~m_hasUnsavedChanges']_vars
  /\ [][(emitted' # emitted /\ nBatches' = nBatches)
         => (m_pending' = m_pending
             /\ m_hasUnsavedChanges' = m_hasUnsavedChanges)]_vars
  /\ [][resetChanges => m_pending' = NoPending /\ ~m_hasUnsavedChanges']_vars
  /\ [](~m_hasUnsavedChanges => m_pending = NoPending)

\* A batch built from pending overrides has reported a failure and nothing
\* is pending.
C19_Witness ==
  /\ lastReport.reported
  /\ ~lastReport.allSucceeded
  /\ nSets > 0
  /\ m_pending = NoPending
  /\ ~m_hasUnsavedChanges

\* C20: after every batch completion, with allSucceeded true or false, the
\* values the client holds for each unit the batch targeted are re-read
\* from the kernel before the outcome is reported: no targeted unit still
\* shows values that differ from the kernel's when applySuccess or
\* applyFailed is emitted.
C20_TargetedUnitsAreReRead ==
  lastReport.reported => lastReport.stale = {}

\* The operations of the batch that are still to be answered: the one in
\* flight and the ones behind it in m_operationQueue.
BatchOps == inFlight \cup {m_operationQueue[i] : i \in DOMAIN m_operationQueue}

\* C26: in every batch built by Application::applyChanges or
\* Application::applyProfile, a unit's set_cpu_online / set_cpu_offline
\* operation is enqueued before that unit's frequency, governor and
\* energy-preference operations: no operation of a unit is enqueued ahead of
\* the unit's online/offline operation.
C26_OnlineOperationEnqueuedFirst ==
  \A a \in BatchOps : \A b \in BatchOps :
    (a.cpu = b.cpu /\ a.id < b.id)
      => b.method \notin {"set_cpu_online", "set_cpu_offline"}

\* C27: when a commit sets a unit offline, no frequency, governor or
\* energy-preference update is issued for that unit in that commit: a batch
\* that holds set_cpu_offline for a unit holds no other operation for it.
C27_OfflineCommitUpdatesNothingElse ==
  \A a \in BatchOps : \A b \in BatchOps :
    (a.method = "set_cpu_offline" /\ b.cpu = a.cpu) => b = a


\* C32: Application::applyChanges and Application::applyProfile never
\* enqueue set_cpu_online or set_cpu_offline for CPU index 0, for any pending
\* online value and any profile entry: no such operation is ever in flight
\* or in the queue.
C32_NoOnlineOperationForUnitZero ==
  \A op \in BatchOps :
    op.method \in {"set_cpu_online", "set_cpu_offline"} => op.cpu # 0

\* A batch holds an operation for unit 0 together with set_cpu_offline for
\* unit 1: the batch targeted both units with an offline request.
C32_Witness ==
  \E a \in BatchOps : \E b \in BatchOps :
    /\ a.cpu = 0
    /\ b.cpu = 1 /\ b.method = "set_cpu_offline"

\* The operations enqueued in batch b.
OpsOfBatch(b) == {i \in 1..nEnqueued : opSpan[i] = b}

\* C35: under the way Application drives the scheduler (beginBatch only when
\* the helper is connected and no operation is in progress, endBatch in the
\* same step), every batch produces exactly one batchCompleted event and it
\* fires after all operations of that batch have completed: a batch has no
\* event while one of its operations is outstanding and one event, never
\* more, from the moment the last of them is over.
C35_OneCompletionPerApplicationBatch ==
  \A b \in 1..nBatches :
    /\ emitted[b] <= 1
    /\ emitted[b] = 1 <=> OpsOfBatch(b) \subseteq completed
    /\ (emitted[b] = 1 /\ lastEvent.span = b)
         => OpsOfBatch(b) \subseteq lastEvent.doneAt

\* Two batches were built, the second with two operations or more, one
\* operation failed, and each batch has had its one event.
C35_Witness ==
  /\ nBatches = 2
  /\ emitted = <<1, 1>>
  /\ Cardinality(OpsOfBatch(2)) >= 2
  /\ failedOps # {}
  /\ lastReport.reported

\* C36: Application::applyChanges called while the helper is not connected,
\* or while an operation is in progress, enqueues nothing, opens no batch,
\* and leaves every pending override and hasUnsavedChanges unchanged.
\* applyReturn is set by applyChanges alone.
C36_RefusedApplyChangesNothing ==
  [][(applyReturn' # "none" /\ (~m_connected \/ m_operationInProgress))
     => (/\ m_operationQueue' = m_operationQueue
         /\ inFlight' = inFlight
         /\ nEnqueued' = nEnqueued
         /\ nBatches' = nBatches
         /\ m_batchMode' = m_batchMode
         /\ spanOpen' = spanOpen
         /\ emitted' = emitted
         /\ m_pending' = m_pending
         /\ m_hasUnsavedChanges' = m_hasUnsavedChanges)]_vars

\* applyChanges has returned at once with a governor pending and a call of
\* the batch before still in flight.
C36_Witness ==
  /\ applyReturn = "Operation already in progress"
  /\ inFlight # {}
  /\ m_hasUnsavedChanges
  /\ m_pending.hasGovernor

\* =================================================================
\* Properties of the unit lists
\* =================================================================

\* The indices a list of parts stands for: each index, each inclusive range
\* start..end (nothing when start > end), nothing for a part with more than
\* one dash, in the order of the parts.
RECURSIVE Listed(_)
Listed(parts) ==
  IF parts = <<>> THEN <<>>
  ELSE LET part == Head(parts)
           these ==
             IF Len(part) = 1 THEN <<part[1]>>
             ELSE IF Len(part) = 2 /\ part[1] <= part[2]
             THEN [i \in 1..(part[2] - part[1] + 1) |-> part[1] + i - 1]
             ELSE <<>>
       IN these \o Listed(Tail(parts))

QueueIds == [i \in 1..Len(m_operationQueue) |-> m_operationQueue[i].id]
IssuedSet == {issued[k] : k \in 1..Len(issued)}

\* C3: at most one asynchronous call is outstanding at any time, and one is
\* outstanding only while m_operationInProgress is set.
C3_AtMostOneInFlight ==
  /\ Cardinality(inFlight) <= 1
  /\ inFlight # {} => m_operationInProgress

C3_Witness ==
  /\ Cardinality(inFlight) = 1
  /\ Len(m_operationQueue) = 2
  /\ ~m_batchMode

\* C4: each beginBatch...endBatch span produces exactly one batchCompleted,
\* fired only after every operation enqueued in the span has completed.
C4_OneCompletionPerSpan ==
  /\ \A b \in 1..nBatches :
       /\ emitted[b] <= 1
       /\ (b < nBatches \/ ~spanOpen) /\ m_operationQueue = <<>> /\ inFlight = {}
            => emitted[b] = 1
  /\ lastEvent.span # 0 =>
       \A i \in 1..nEnqueued :
         opSpan[i] = lastEvent.span => i \in lastEvent.doneAt

\* C5: the error list of a batchCompleted has exactly one entry for each
\* failed operation of that batch and none for any other operation, and
\* allSucceeded is true exactly when the list is empty.
C5_ErrorsAreTheBatchFailures ==
  lastEvent.span # 0 =>
    LET e == lastEvent
        listed == {e.errors[j] : j \in 1..Len(e.errors)}
        failedInBatch == {i \in failedOps \cap e.doneAt : opSpan[i] = e.span}
    IN
    /\ listed = failedInBatch
    /\ Len(e.errors) = Cardinality(failedInBatch)
    /\ e.allSucceeded <=> e.errors = <<>>

\* C6: operations are issued in the order they were enqueued, none skipped
\* or merged, each only after all earlier ones were issued and completed.
C6_IssuedInEnqueueOrder ==
  /\ m_connected => issued \o QueueIds = [i \in 1..nEnqueued |-> i]
  /\ ~m_connected => issued = <<>>
  /\ \A w \in inFlight : \A j \in 1..(w.id - 1) : j \in completed

C6_Witness ==
  /\ Len(issued) = 2
  /\ inFlight # {}
  /\ m_operationQueue # <<>>
  /\ failedOps # {}

\* C7: if every call in flight completes and every open batch is closed,
\* every enqueued operation is eventually dequeued and issued or recorded
\* as failed, whatever happened to the operations before it.
\* (An operation once enqueued stays enqueued and once processed stays
\* processed, so "always eventually: not yet enqueued or processed" says that
\* each enqueued operation is eventually processed.)
C7_EveryOperationIsProcessed ==
  \A i \in 1..MaxOps :
    []<>(nEnqueued >= i => i \in IssuedSet \/ i \in failedOps)

C7_Witness ==
  /\ failedOps # {}
  /\ \E i \in IssuedSet : \E j \in failedOps : j < i

\* C14: endBatch called with an empty queue and nothing in flight emits
\* batchCompleted(true, []) within the call, once, and leaves the scheduler
\* idle with no batch open.
C14_EmptyBatchCompletesAtOnce ==
  [][spanOpen /\ ~spanOpen' /\ m_operationQueue = <<>> /\ ~m_operationInProgress
       => /\ emitted' = [emitted EXCEPT ![nBatches] = @ + 1]
          /\ lastEvent'.span = nBatches
          /\ lastEvent'.allSucceeded
          /\ lastEvent'.errors = <<>>
          /\ ~m_batchMode'
          /\ m_operationQueue' = <<>>
          /\ ~m_operationInProgress'
          /\ inFlight' = {}]_vars

C14_Witness ==
  /\ nBatches = 2
  /\ ~spanOpen
  /\ nEnqueued = 0
  /\ emitted = <<1, 1>>
  /\ lastEvent.span = 2
  /\ lastEvent.allSucceeded

\* C29: if the helper is not connected when an operation is dequeued, no
\* remote call is issued for it, one failure entry with its description is
\* appended to the batch failure list, the next queued operation is
\* processed in the same step, and the batch still completes with
\* allSucceeded = false.  `taken` are the operations the step dequeued, in
\* order.
C29_NotConnectedFailsAndContinues ==
  [][~m_connected
     => LET all == QueueIds \o (IF nEnqueued' > nEnqueued
                                THEN <<nEnqueued'>> ELSE <<>>)
            taken == SubSeq(all, 1, Len(all) - Len(m_operationQueue'))
        IN /\ inFlight' = {} /\ issued' = issued
           /\ taken # <<>>
                => /\ m_operationQueue' = <<>>
                   /\ failedOps' = failedOps \cup {taken[i] : i \in DOMAIN taken}
                   /\ IF m_batchMode
                      THEN /\ ~m_batchMode'
                           /\ emitted'[nBatches] = emitted[nBatches] + 1
                           /\ lastEvent'.span = nBatches
                           /\ lastEvent'.allSucceeded = FALSE
                           /\ lastEvent'.errors = m_batchErrors \o taken
                      ELSE /\ emitted' = emitted
                           /\ m_batchErrors' = m_batchErrors \o taken
                           /\ m_batchHadErrors']_vars

\* A batch of two operations was closed without a connection: both are in
\* its failure list and nothing was issued.
C29_Witness ==
  /\ ~m_connected
  /\ issued = <<>>
  /\ m_operationQueue = <<>>
  /\ lastEvent.span = 1
  /\ ~lastEvent.allSucceeded
  /\ Len(lastEvent.errors) = 2
  /\ failedOps = {lastEvent.errors[1], lastEvent.errors[2]}

\* C30: while a batch is open (after beginBatch and before its completion),
\* queueOperation only appends to the queue and never itself issues a
\* remote call; endBatch starts draining if and only if the queue is
\* non-empty and no operation is in flight.  A step that raises nEnqueued is
\* a queueOperation, a step that closes the span is an endBatch.
C30_OpenBatchOnlyQueuesAndEndBatchDrains ==
  [][/\ (nEnqueued' # nEnqueued /\ m_batchMode)
          => /\ Len(m_operationQueue') = Len(m_operationQueue) + 1
             /\ SubSeq(m_operationQueue', 1, Len(m_operationQueue))
                  = m_operationQueue
             /\ m_operationQueue'[Len(m_operationQueue')].id = nEnqueued'
             /\ issued' = issued
             /\ inFlight' = inFlight
     /\ (spanOpen /\ ~spanOpen')
          => IF m_operationQueue # <<>> /\ inFlight = {}
             THEN /\ Len(m_operationQueue') < Len(m_operationQueue)
                  /\ m_connected
                       => /\ issued' = Append(issued, Head(m_operationQueue).id)
                          /\ inFlight' = {Head(m_operationQueue)}
             ELSE /\ m_operationQueue' = m_operationQueue
                  /\ issued' = issued
                  /\ inFlight' = inFlight]_vars

\* Two operations were enqueued in an open batch with a connection and
\* nothing in flight: both wait in the queue and no call was issued.
C30_Witness ==
  /\ m_connected
  /\ m_batchMode /\ spanOpen
  /\ Len(m_operationQueue) = 2
  /\ inFlight = {}
  /\ issued = <<>>

\* C34: whenever the scheduler is at rest between events, if no operation
\* is in flight and no batch is open then the operation queue is empty: an
\* operation enqueued outside a batch is started at once or waits behind
\* the one in flight, and is never left stranded.
C34_NoStrandedOperation ==
  /\ []((inFlight = {} /\ ~m_batchMode) => m_operationQueue = <<>>)
  /\ [][(nEnqueued' # nEnqueued /\ ~m_batchMode)
         => IF inFlight = {}
            THEN /\ m_operationQueue' = <<>>
                 /\ m_connected
                      => /\ Cardinality(inFlight') = 1
                         /\ \A w \in inFlight' : w.id = nEnqueued'
            ELSE /\ inFlight' = inFlight
                 /\ Len(m_operationQueue') = Len(m_operationQueue) + 1
                 /\ m_operationQueue'[Len(m_operationQueue')].id = nEnqueued']_vars

\* Outside any batch one operation is in flight and the next one waits in
\* the queue.
C34_Witness ==
  /\ nBatches = 0
  /\ ~m_batchMode
  /\ Cardinality(inFlight) = 1
  /\ Len(m_operationQueue) = 1
  /\ issued = <<1>>

====
